---- MODULE Spec2Model ----
(***************************************************************************)
(* A model of the luna term-rewriting core: expressions, the generators of *)
(* the pattern matcher (subsets, permutations, associative function       *)
(* applications), the match rules, the Matcher state machine, the Context *)
(* and the evaluator.                                                      *)
(***************************************************************************)
EXTENDS Integers, Sequences, FiniteSets, TLC

(***************************************************************************)
(* Expressions (expressions/mod.rs, expressions/kind.rs, normal.rs).       *)
(* Every expression is a record of one shape: t is the variant, n the      *)
(* payload of a Symbol or String, i the payload of an Integer, and e is    *)
(* <<head>> \o elements for a Normal expression.                           *)
(***************************************************************************)
Sym(name) == [t |-> "Symbol", n |-> name, i |-> 0, e |-> <<>>]

Integer(value) == [t |-> "Integer", n |-> "", i |-> value, e |-> <<>>]

Str(value) == [t |-> "String", n |-> value, i |-> 0, e |-> <<>>]

Normal(head, elements) == [t |-> "Normal", n |-> "", i |-> 0, e |-> <<head>> \o elements]

\* Normal::new with a symbol head, as written by the parser for `f[...]`.
App(name, elements) == Normal(Sym(name), elements)

\* The pattern forms as the parser builds them: `_`, `__`, `___`, `x_`.
Blank == App("Blank", <<>>)

BlankSequence == App("BlankSequence", <<>>)

BlankNullSequence == App("BlankNullSequence", <<>>)

Pattern(name, blank) == App("Pattern", <<Sym(name), blank>>)

Sequence(elems) == App("Sequence", elems)

try_normal(expr) == expr.t = "Normal"

try_symbol(expr) == expr.t = "Symbol"

head(normal) == normal.e[1]

elements(normal) == Tail(normal.e)

len(normal) == Len(normal.e) - 1

\* Normal::element / Normal::part with a 0-based index; only used when idx < len.
element(normal, idx) == normal.e[idx + 2]

has_element(normal, idx) == idx < len(normal)

\* Normal::has_head / Expr::is_normal_head
is_normal_head(expr, name) ==
    /\ expr.t = "Normal"
    /\ head(expr).t = "Symbol"
    /\ head(expr).n = name

\* Elements [from..] of a sequence, 0-based `from` as in the Rust slices.
SliceFrom(s, from) == SubSeq(s, from + 1, Len(s))

(***************************************************************************)
(* Pattern forms (expression_matchers.rs).  An Option<(Option<&Symbol>,..)>*)
(* is a record: some says whether the form was recognised, named whether   *)
(* it carries a variable, variable the variable's name.                    *)
(***************************************************************************)
NoVariable == [some |-> FALSE, matches_empty |-> FALSE, named |-> FALSE, variable |-> ""]

try_sequence(expr) == is_normal_head(expr, "Sequence")

try_blank(expr) == is_normal_head(expr, "Blank") /\ len(expr) \in {0, 1}

try_blank_sequence(expr) == is_normal_head(expr, "BlankSequence") /\ len(expr) \in {0, 1}

try_blank_null_sequence(expr) ==
    is_normal_head(expr, "BlankNullSequence") /\ len(expr) \in {0, 1}

\* The shared shape of try_blank_pattern, try_blank_sequence_pattern and
\* try_blank_null_sequence_pattern: Pattern[sym, <blank form>].
IsPattern(expr) ==
    /\ is_normal_head(expr, "Pattern")
    /\ len(expr) = 2
    /\ try_symbol(element(expr, 0))

try_blank_pattern(expr) == IsPattern(expr) /\ try_blank(element(expr, 1))

try_blank_sequence_pattern(expr) == IsPattern(expr) /\ try_blank_sequence(element(expr, 1))

try_blank_null_sequence_pattern(expr) == IsPattern(expr) /\ try_blank_null_sequence(element(expr, 1))

parse_individual_variable(expr) ==
    IF try_blank(expr)
    THEN [some |-> TRUE, matches_empty |-> FALSE, named |-> FALSE, variable |-> ""]
    ELSE IF try_blank_pattern(expr)
    THEN [some |-> TRUE, matches_empty |-> FALSE, named |-> TRUE,
          variable |-> element(expr, 0).n]
    ELSE NoVariable

parse_any_sequence_variable(expr) ==
    IF try_blank_sequence(expr)
    THEN [some |-> TRUE, matches_empty |-> FALSE, named |-> FALSE, variable |-> ""]
    ELSE IF try_blank_null_sequence(expr)
    THEN [some |-> TRUE, matches_empty |-> TRUE, named |-> FALSE, variable |-> ""]
    ELSE IF try_blank_sequence_pattern(expr)
    THEN [some |-> TRUE, matches_empty |-> FALSE, named |-> TRUE,
          variable |-> element(expr, 0).n]
    ELSE IF try_blank_null_sequence_pattern(expr)
    THEN [some |-> TRUE, matches_empty |-> TRUE, named |-> TRUE,
          variable |-> element(expr, 0).n]
    ELSE NoVariable

is_any_sequence_variable(expr) == parse_any_sequence_variable(expr).some

(***************************************************************************)
(* Bit arithmetic on naturals, as the BigInteger operators compute it.     *)
(***************************************************************************)
RECURSIVE Pow2(_)
Pow2(k) == IF k = 0 THEN 1 ELSE 2 * Pow2(k - 1)

RECURSIVE BitOr(_, _)
BitOr(a, b) ==
    IF a = 0 THEN b
    ELSE IF b = 0 THEN a
    ELSE (IF a % 2 = 1 \/ b % 2 = 1 THEN 1 ELSE 0) + 2 * BitOr(a \div 2, b \div 2)

RECURSIVE BitXor(_, _)
BitXor(a, b) ==
    IF a = 0 THEN b
    ELSE IF b = 0 THEN a
    ELSE (IF a % 2 # b % 2 THEN 1 ELSE 0) + 2 * BitXor(a \div 2, b \div 2)

RECURSIVE PopCount(_)
PopCount(a) == IF a = 0 THEN 0 ELSE (a % 2) + PopCount(a \div 2)

\* value & (!value + 1): the lowest set bit of a positive value.
RECURSIVE LowestBit(_)
LowestBit(a) == IF a % 2 = 1 THEN 1 ELSE 2 * LowestBit(a \div 2)

(***************************************************************************)
(* Subset (matching/subsets/mod.rs): a bit mask over n positions.          *)
(***************************************************************************)
SubsetEmpty(n) == [n |-> n, value |-> 0]

SubsetIsZero(subset) == subset.value = 0

SubsetCountOnes(subset) == PopCount(subset.value)

SubsetGet(subset, idx) == (subset.value \div Pow2(idx)) % 2 = 1

\* Subset::extract: the chosen values and the others, both in their order.
SubsetExtract(subset, values) ==
    [subset |-> SelectSeq([k \in 1..Len(values) |-> <<k, values[k]>>],
                          LAMBDA kv : SubsetGet(subset, kv[1] - 1)),
     complement |-> SelectSeq([k \in 1..Len(values) |-> <<k, values[k]>>],
                              LAMBDA kv : ~SubsetGet(subset, kv[1] - 1))]

ExtractSubset(subset, values) ==
    LET x == SubsetExtract(subset, values).subset
    IN  [k \in 1..Len(x) |-> x[k][2]]

ExtractComplement(subset, values) ==
    LET x == SubsetExtract(subset, values).complement
    IN  [k \in 1..Len(x) |-> x[k][2]]

\* Subset::resize_next: Gosper's next mask of equal popcount below 2^n, else the
\* lowest mask with one more bit, else None.
SubsetResizeNext(subset, n) ==
    IF n = 0 THEN [some |-> FALSE, subset |-> subset]
    ELSE IF SubsetIsZero(subset) THEN [some |-> TRUE, subset |-> [n |-> n, value |-> 1]]
    ELSE LET max  == Pow2(n)
             c    == LowestBit(subset.value)
             r    == subset.value + c
             next == BitOr((BitXor(r, subset.value) \div 4) \div c, r)
             bits == SubsetCountOnes(subset)
         IN  IF next < max THEN [some |-> TRUE, subset |-> [n |-> n, value |-> next]]
             ELSE IF bits < n
             THEN [some |-> TRUE, subset |-> [n |-> n, value |-> Pow2(bits + 1) - 1]]
             ELSE [some |-> FALSE, subset |-> subset]

\* A faulty variant: after the last mask of a size the enumeration ends.
SubsetNext_one_size(subset) ==
    IF SubsetResizeNext(subset, subset.n).some
           /\ (SubsetIsZero(subset)
               \/ SubsetCountOnes(SubsetResizeNext(subset, subset.n).subset)
                      = SubsetCountOnes(subset))
    THEN SubsetResizeNext(subset, subset.n)
    ELSE [some |-> FALSE, subset |-> subset]

SubsetNext(subset) == SubsetResizeNext(subset, subset.n)

(***************************************************************************)
(* PermutationGenerator32 and SinglePermutation32 (matching/permute).      *)
(* A permutation is the sequence of 0-based indices the iterator yields.   *)
(***************************************************************************)
RECURSIVE Product(_)
Product(k) == IF k = 0 THEN 1 ELSE k * Product(k - 1)

factorial128(nb_elems) == IF nb_elems \in {0, 1, 2} THEN nb_elems ELSE Product(nb_elems)

\* PermutationGenerator32::MAX_ELEMENTS
MAX_ELEMENTS == 32

\* `if nb_elems > Self::MAX_ELEMENTS { panic!("too many elements"); }`
PermutationGenerator32New_panics(nb_elems) == nb_elems > MAX_ELEMENTS

\* `len as u8`
as_u8(n) == n % 256

\* PermutationGenerator32::new(len as u8), as AFACGenerator::new calls it for
\* a function of len elements and RuleSVEC::next for a subset of len
\* elements: whether it panics and, if not, the elements it permutes.
PermutationGenerator32New_for(n) ==
    [done |-> TRUE, panic |-> PermutationGenerator32New_panics(as_u8(n)),
     nb_elems |-> as_u8(n)]

PermutationGenerator32New(nb_elems) ==
    [nb_elems |-> nb_elems, nb_perms |-> factorial128(nb_elems), next_idx |-> 0]

\* SinglePermutation32::next, iterated to its end: elems are the indices still
\* in the bit index, in increasing order; pop(bit_nb) takes the bit_nb-th of them.
RECURSIVE SinglePermutation32Items(_, _, _)
SinglePermutation32Items(elems, next_mod, current_idx) ==
    IF Len(elems) = 0 THEN <<>>
    ELSE LET bit_nb   == current_idx \div next_mod
             rest_idx == current_idx - bit_nb * next_mod
             divisor  == (IF Len(elems) >= 2 THEN Len(elems) - 2 ELSE 0) + 1
         IN  IF bit_nb >= Len(elems) THEN <<>>
             ELSE <<elems[bit_nb + 1]>> \o
                  SinglePermutation32Items(
                      SubSeq(elems, 1, bit_nb) \o SubSeq(elems, bit_nb + 2, Len(elems)),
                      next_mod \div divisor, rest_idx)

\* SinglePermutation32::new followed by the iteration of the result.
SinglePermutation32(nb_elems, nb_perms, idx) ==
    SinglePermutation32Items([k \in 1..nb_elems |-> k - 1], nb_perms \div nb_elems, idx)

\* PermutationGenerator32::next (next_permutation, nth(0)).
PermutationGenerator32Next(pg) ==
    [gen  |-> [pg EXCEPT !.next_idx = pg.next_idx + 1],
     some |-> pg.next_idx < pg.nb_perms,
     permutation |-> IF pg.next_idx < pg.nb_perms
                     THEN SinglePermutation32(pg.nb_elems, pg.nb_perms, pg.next_idx)
                     ELSE <<>>]

(***************************************************************************)
(* AFAGenerator (matching/function_application/afa_generator.rs).          *)
(***************************************************************************)
AFAGeneratorNew(function) ==
    IF len(function) = 0
    THEN [function |-> function, exhausted |-> TRUE,
          singleton_state |-> SubsetEmpty(0), application_state |-> SubsetEmpty(0)]
    ELSE [function |-> function, exhausted |-> FALSE,
          singleton_state |-> SubsetEmpty(0),
          application_state |-> SubsetEmpty(len(function) - 1)]

\* The loop of AFAGenerator::next over position = 1..=len: yields the result
\* sequence and the number of single-element groups met.
RECURSIVE AFAGroups(_, _, _, _, _)
AFAGroups(g, position, last_boundary_position, singleton_count, result_sequence) ==
    IF position > len(g.function)
    THEN [result_sequence |-> result_sequence, singleton_count |-> singleton_count]
    ELSE IF position = len(g.function) \/ ~SubsetGet(g.application_state, position - 1)
    THEN IF position - last_boundary_position > 1
         THEN AFAGroups(g, position + 1, position, singleton_count,
                  Append(result_sequence,
                         Normal(head(g.function),
                                SubSeq(elements(g.function),
                                       last_boundary_position + 1, position))))
         ELSE AFAGroups(g, position + 1, position, singleton_count + 1,
                  Append(result_sequence,
                         IF SubsetGet(g.singleton_state, singleton_count)
                         THEN Normal(head(g.function), <<element(g.function, position - 1)>>)
                         ELSE element(g.function, position - 1)))
    ELSE AFAGroups(g, position + 1, last_boundary_position, singleton_count,
                   result_sequence)

\* A faulty variant: single-element groups are never wrapped.
AFAGeneratorNext_unwrapped(g) ==
    IF g.exhausted THEN [gen |-> g, some |-> FALSE, result |-> <<>>]
    ELSE [gen |-> IF SubsetNext(g.application_state).some
                  THEN [g EXCEPT !.singleton_state = SubsetEmpty(0),
                                 !.application_state = SubsetNext(g.application_state).subset]
                  ELSE [g EXCEPT !.exhausted = TRUE],
          some |-> TRUE,
          result |-> AFAGroups(g, 1, 0, 0, <<>>).result_sequence]

AFAGeneratorNext(g) ==
    IF g.exhausted THEN [gen |-> g, some |-> FALSE, result |-> <<>>]
    ELSE LET built == AFAGroups(g, 1, 0, 0, <<>>)
             next_singleton_state ==
                 SubsetResizeNext(g.singleton_state, built.singleton_count)
             next_application_state == SubsetNext(g.application_state)
         IN  [gen |-> IF next_singleton_state.some
                      THEN [g EXCEPT !.singleton_state = next_singleton_state.subset]
                      ELSE IF next_application_state.some
                      THEN [g EXCEPT !.singleton_state = SubsetEmpty(0),
                                     !.application_state = next_application_state.subset]
                      ELSE [g EXCEPT !.exhausted = TRUE],
              some |-> TRUE,
              result |-> built.result_sequence]

(***************************************************************************)
(* AFACGenerator (matching/function_application/afac_generator.rs).        *)
(***************************************************************************)
AFACGeneratorNew(function) ==
    [function |-> function,
     afa_generator |-> AFAGeneratorNew(function),
     permutations |->
         PermutationGenerator32Next(PermutationGenerator32New(len(function))).gen]

\* The AFA generator built for the next permutation of the arguments, and its
\* first result.
AFACGeneratorRestart(g, b) ==
    [gen |-> [g EXCEPT !.afa_generator = b.gen], some |-> b.some, result |-> b.result]

\* match self.permutations.next()
AFACGeneratorPermute(g, p) ==
    IF ~p.some
    THEN [gen |-> [g EXCEPT !.permutations = p.gen], some |-> FALSE, result |-> <<>>]
    ELSE AFACGeneratorRestart([g EXCEPT !.permutations = p.gen],
             AFAGeneratorNext(
                 AFAGeneratorNew(
                     Normal(head(g.function),
                            [k \in 1..Len(p.permutation) |->
                                element(g.function, p.permutation[k])]))))

\* match self.afa_generator.next()
AFACGeneratorApplication(g, a) ==
    IF a.some
    THEN [gen |-> [g EXCEPT !.afa_generator = a.gen], some |-> TRUE, result |-> a.result]
    ELSE AFACGeneratorPermute([g EXCEPT !.afa_generator = a.gen],
                              PermutationGenerator32Next(g.permutations))

\* A faulty variant: the arguments are never permuted.
AFACGeneratorNext_identity_only(g) ==
    [gen |-> [g EXCEPT !.afa_generator = AFAGeneratorNext(g.afa_generator).gen],
     some |-> AFAGeneratorNext(g.afa_generator).some,
     result |-> AFAGeneratorNext(g.afa_generator).result]

AFACGeneratorNext(g) == AFACGeneratorApplication(g, AFAGeneratorNext(g.afa_generator))

(***************************************************************************)
(* Match equations, match results and the rule generators (matching/).     *)
(* A generator is a record holding the fields its rule's struct declares,  *)
(* tagged with the rule's name.                                            *)
(***************************************************************************)
MatchEquation(pattern, ground) == [pattern |-> pattern, ground |-> ground]

ResultEquation(pattern, ground) ==
    [kind |-> "MatchEquation", variable |-> "", pattern |-> pattern, ground |-> ground]

ResultSubstitution(variable, ground) ==
    [kind |-> "Substitution", variable |-> variable, pattern |-> ground, ground |-> ground]

EmptyFunction == App("Sequence", <<>>)

\* A rule that yields one result list: the equation and whether it was yielded.
OneShot(rule, pattern, ground, v) ==
    [rule |-> rule, pattern |-> pattern, ground |-> ground,
     named |-> v.named, variable |-> v.variable, exhausted |-> FALSE]

NoGenerator == [rule |-> "None"]

NoRule == [some |-> FALSE, gen |-> NoGenerator]

SomeRule(gen) == [some |-> TRUE, gen |-> gen]

NoResults(gen) == [gen |-> gen, some |-> FALSE, results |-> <<>>]

SomeResults(gen, results) == [gen |-> gen, some |-> TRUE, results |-> results]

\* MatchGenerator::match_equation: every rule returns the equation it was built from.
match_equation(gen) == MatchEquation(gen.pattern, gen.ground)

\* The tail pattern f[p2, ..., pk] every decomposing rule continues with.
PatternRest(gen) == Normal(head(gen.pattern), SliceFrom(elements(gen.pattern), 1))

\* [equation, substitution] when the variable is named, else [equation].
WithSubstitution(gen, equation, value) ==
    IF gen.named THEN <<equation, ResultSubstitution(gen.variable, value)>>
    ELSE <<equation>>

\* ---- RuleT (rule_t.rs)
RuleT_try_rule(eq) ==
    IF eq.pattern = eq.ground
    THEN SomeRule(OneShot("T", eq.pattern, eq.ground, NoVariable))
    ELSE NoRule

RuleT_next(gen) ==
    IF gen.exhausted THEN NoResults(gen)
    ELSE SomeResults([gen EXCEPT !.exhausted = TRUE], <<>>)

\* ---- RuleVE (rule_ve.rs)
RuleVE_sequence(eq, sv) ==
    IF sv.some /\ try_sequence(eq.ground)
    THEN IF ~sv.matches_empty /\ len(eq.ground) = 0
         THEN NoRule
         ELSE SomeRule(OneShot("VE", eq.pattern, eq.ground, sv))
    ELSE NoRule

RuleVE_individual(eq, iv) ==
    IF iv.some THEN SomeRule(OneShot("VE", eq.pattern, eq.ground, iv))
    ELSE RuleVE_sequence(eq, parse_any_sequence_variable(eq.pattern))

\* try_rule without the test for an empty Sequence against `x__`.
RuleVE_try_rule_empty_accepted(eq) ==
    IF parse_individual_variable(eq.pattern).some
    THEN SomeRule(OneShot("VE", eq.pattern, eq.ground, parse_individual_variable(eq.pattern)))
    ELSE IF parse_any_sequence_variable(eq.pattern).some /\ try_sequence(eq.ground)
    THEN SomeRule(OneShot("VE", eq.pattern, eq.ground,
                          parse_any_sequence_variable(eq.pattern)))
    ELSE NoRule

RuleVE_try_rule(eq) == RuleVE_individual(eq, parse_individual_variable(eq.pattern))

RuleVE_next(gen) ==
    IF gen.exhausted THEN NoResults(gen)
    ELSE SomeResults([gen EXCEPT !.exhausted = TRUE],
                     IF gen.named THEN <<ResultSubstitution(gen.variable, gen.ground)>>
                     ELSE <<>>)

\* ---- RuleFVE (rule_fve.rs)
RuleFVE_variable(eq, iv) ==
    IF iv.some THEN SomeRule(OneShot("FVE", eq.pattern, eq.ground, iv)) ELSE NoRule

RuleFVE_try_rule(eq) ==
    IF try_normal(eq.pattern) /\ try_normal(eq.ground)
    THEN RuleFVE_variable(eq, parse_individual_variable(head(eq.pattern)))
    ELSE NoRule

RuleFVE_next(gen) ==
    IF gen.exhausted THEN NoResults(gen)
    ELSE SomeResults([gen EXCEPT !.exhausted = TRUE],
             WithSubstitution(gen,
                 ResultEquation(Normal(head(gen.ground), elements(gen.pattern)),
                                gen.ground),
                 head(gen.ground)))

\* ---- RuleDNC (rule_dnc.rs)
RuleDNC_try_rule(eq) ==
    IF /\ try_normal(eq.pattern)
       /\ try_normal(eq.ground)
       /\ has_element(eq.pattern, 0)
       /\ has_element(eq.ground, 0)
       /\ ~is_any_sequence_variable(element(eq.pattern, 0))
    THEN SomeRule(OneShot("DNC", eq.pattern, eq.ground, NoVariable))
    ELSE NoRule

RuleDNC_next(gen) ==
    IF gen.exhausted THEN NoResults(gen)
    ELSE SomeResults([gen EXCEPT !.exhausted = TRUE],
             <<ResultEquation(element(gen.pattern, 0), element(gen.ground, 0)),
               ResultEquation(PatternRest(gen),
                              Normal(head(gen.ground),
                                     SliceFrom(elements(gen.ground), 1)))>>)

\* ---- RuleDC (rule_dc.rs)
RuleDC_try_rule(eq) ==
    IF /\ try_normal(eq.pattern)
       /\ try_normal(eq.ground)
       /\ has_element(eq.pattern, 0)
       /\ has_element(eq.ground, 0)
       /\ ~is_any_sequence_variable(element(eq.pattern, 0))
    THEN SomeRule([rule |-> "DC", pattern |-> eq.pattern, ground |-> eq.ground,
                   named |-> FALSE, variable |-> "", term_idx |-> 0])
    ELSE NoRule

\* A faulty variant: the first pattern element is paired with the first
\* ground argument only, as under a head that is not Commutative.
RuleDC_next_in_place(gen) ==
    IF gen.term_idx > 0 THEN NoResults(gen)
    ELSE SomeResults([gen EXCEPT !.term_idx = 1],
             <<ResultEquation(element(gen.pattern, 0), element(gen.ground, 0)),
               ResultEquation(PatternRest(gen),
                              Normal(head(gen.ground),
                                     SliceFrom(elements(gen.ground), 1)))>>)

RuleDC_next(gen) ==
    IF gen.term_idx = len(gen.ground) THEN NoResults(gen)
    ELSE SomeResults([gen EXCEPT !.term_idx = gen.term_idx + 1],
             <<ResultEquation(element(gen.pattern, 0), element(gen.ground, gen.term_idx)),
               ResultEquation(PatternRest(gen),
                   Normal(head(gen.ground),
                          SubSeq(elements(gen.ground), 1, gen.term_idx) \o
                          SliceFrom(elements(gen.ground), gen.term_idx + 1)))>>)

\* ---- RuleSVEF (rule_svef.rs)
RuleSVEF_new(pattern, ground, sv) ==
    IF sv.some
    THEN SomeRule([rule |-> "SVEF", pattern |-> pattern, ground |-> ground,
                   named |-> sv.named, variable |-> sv.variable,
                   empty_produced |-> ~sv.matches_empty, ground_sequence |-> <<>>])
    ELSE NoRule

\* make_next, returned with the generator it was computed from.
RuleSVEF_make_next(gen) ==
    SomeResults(gen,
        WithSubstitution(gen,
            ResultEquation(PatternRest(gen),
                Normal(head(gen.ground),
                       SliceFrom(elements(gen.ground), Len(gen.ground_sequence)))),
            App("Sequence", gen.ground_sequence)))

RuleSVEF_try_rule(eq) ==
    IF try_normal(eq.pattern) /\ try_normal(eq.ground) /\ has_element(eq.pattern, 0)
    THEN RuleSVEF_new(eq.pattern, eq.ground,
                      parse_any_sequence_variable(element(eq.pattern, 0)))
    ELSE NoRule

\* A faulty variant: the empty sequence is never produced.
RuleSVEF_next_nonempty(gen) ==
    IF ~has_element(gen.ground, Len(gen.ground_sequence)) THEN NoResults(gen)
    ELSE RuleSVEF_make_next(
             [gen EXCEPT !.empty_produced = TRUE,
                         !.ground_sequence =
                             Append(gen.ground_sequence,
                                    element(gen.ground, Len(gen.ground_sequence)))])

RuleSVEF_next(gen) ==
    IF ~gen.empty_produced
    THEN RuleSVEF_make_next([gen EXCEPT !.empty_produced = TRUE])
    ELSE IF ~has_element(gen.ground, Len(gen.ground_sequence)) THEN NoResults(gen)
    ELSE RuleSVEF_make_next(
             [gen EXCEPT !.ground_sequence =
                  Append(gen.ground_sequence,
                         element(gen.ground, Len(gen.ground_sequence)))])

\* ---- RuleSVEC (rule_svec.rs)
RuleSVEC_new(pattern, ground, sv) ==
    IF sv.some
    THEN SomeRule([rule |-> "SVEC", pattern |-> pattern, ground |-> ground,
                   named |-> sv.named, variable |-> sv.variable,
                   empty_produced |-> ~sv.matches_empty,
                   subset |-> SubsetEmpty(len(ground)),
                   permutations |-> PermutationGenerator32New(1)])
    ELSE NoRule

RuleSVEC_try_rule(eq) ==
    IF try_normal(eq.pattern) /\ try_normal(eq.ground) /\ has_element(eq.pattern, 0)
    THEN RuleSVEC_new(eq.pattern, eq.ground,
                      parse_any_sequence_variable(element(eq.pattern, 0)))
    ELSE NoRule

\* The subset picked by the permutation: permutation.map(|idx| subset[idx]).
Permuted(chosen, permutation) ==
    [k \in 1..Len(permutation) |-> chosen[permutation[k] + 1]]

\* The results of RuleSVEC::next for the current subset in the given permutation.
RuleSVEC_results(gen, permutation) ==
    SomeResults(gen,
        WithSubstitution(gen,
            ResultEquation(PatternRest(gen),
                Normal(head(gen.ground),
                       ExtractComplement(gen.subset, elements(gen.ground)))),
            App("Sequence",
                Permuted(ExtractSubset(gen.subset, elements(gen.ground)), permutation))))

\* self.permutations = PermutationGenerator32::new(..); self.permutations.next()?
RuleSVEC_first_permutation(gen, np) ==
    IF np.some THEN RuleSVEC_results([gen EXCEPT !.permutations = np.gen], np.permutation)
    ELSE NoResults([gen EXCEPT !.permutations = np.gen])

\* self.subset = self.subset.next()? once the permutations have run out.
RuleSVEC_next_subset(gen, ns) ==
    IF ns.some
    THEN RuleSVEC_first_permutation([gen EXCEPT !.subset = ns.subset],
             PermutationGenerator32Next(
                 PermutationGenerator32New(SubsetCountOnes(ns.subset))))
    ELSE NoResults(gen)

\* A faulty variant: a subset is given in its first ordering only.
RuleSVEC_permutation_first_only(gen, p) ==
    IF p.some /\ gen.permutations.next_idx = 0
    THEN RuleSVEC_results([gen EXCEPT !.permutations = p.gen], p.permutation)
    ELSE RuleSVEC_next_subset([gen EXCEPT !.permutations = p.gen], SubsetNext(gen.subset))

\* match self.permutations.next()
RuleSVEC_permutation(gen, p) ==
    IF p.some THEN RuleSVEC_results([gen EXCEPT !.permutations = p.gen], p.permutation)
    ELSE RuleSVEC_next_subset([gen EXCEPT !.permutations = p.gen], SubsetNext(gen.subset))

RuleSVEC_permute(gen) ==
    RuleSVEC_permutation(gen, PermutationGenerator32Next(gen.permutations))

\* if self.subset.is_zero() { self.subset = self.subset.next()?; }
RuleSVEC_leave_zero(gen, ns) ==
    IF ns.some THEN RuleSVEC_permute([gen EXCEPT !.subset = ns.subset])
    ELSE NoResults(gen)

RuleSVEC_next(gen) ==
    IF SubsetIsZero(gen.subset) /\ ~gen.empty_produced
    THEN SomeResults([gen EXCEPT !.empty_produced = TRUE],
             WithSubstitution(gen, ResultEquation(PatternRest(gen), gen.ground),
                              App("Sequence", <<>>)))
    ELSE IF SubsetIsZero(gen.subset)
    THEN RuleSVEC_leave_zero(gen, SubsetNext(gen.subset))
    ELSE RuleSVEC_permute(gen)

\* ---- RuleSVEA (rule_svea.rs)
RuleSVEA_new(pattern, ground, sv) ==
    IF sv.some
    THEN SomeRule([rule |-> "SVEA", pattern |-> pattern, ground |-> ground,
                   named |-> sv.named, variable |-> sv.variable,
                   ground_sequence |-> <<>>,
                   generator_some |-> ~sv.matches_empty,
                   afa_generator |-> AFAGeneratorNew(Normal(head(ground), <<>>))])
    ELSE NoRule

\* A faulty variant: the tail equation keeps all but the first ground argument,
\* however many the sequence variable took.
RuleSVEA_make_next_one_taken(gen, ordered_sequence) ==
    SomeResults(gen,
        WithSubstitution(gen,
            ResultEquation(PatternRest(gen),
                Normal(head(gen.ground), SliceFrom(elements(gen.ground), 1))),
            App("Sequence", ordered_sequence)))

\* make_next, returned with the generator it was computed from.
RuleSVEA_make_next(gen, ordered_sequence) ==
    SomeResults(gen,
        WithSubstitution(gen,
            ResultEquation(PatternRest(gen),
                Normal(head(gen.ground),
                       SliceFrom(elements(gen.ground), Len(gen.ground_sequence)))),
            App("Sequence", ordered_sequence)))

RuleSVEA_try_rule(eq) ==
    IF try_normal(eq.pattern) /\ try_normal(eq.ground) /\ has_element(eq.pattern, 0)
    THEN RuleSVEA_new(eq.pattern, eq.ground,
                      parse_any_sequence_variable(element(eq.pattern, 0)))
    ELSE NoRule

\* The generator built for a longer ground sequence, and its first result.
RuleSVEA_first(gen, b) ==
    RuleSVEA_make_next([gen EXCEPT !.afa_generator = b.gen], b.result)

RuleSVEA_extend(gen, ground_sequence) ==
    RuleSVEA_first([gen EXCEPT !.ground_sequence = ground_sequence],
        AFAGeneratorNext(AFAGeneratorNew(Normal(head(gen.ground), ground_sequence))))

\* match generator.next()
RuleSVEA_application(gen, a) ==
    IF a.some THEN RuleSVEA_make_next([gen EXCEPT !.afa_generator = a.gen], a.result)
    ELSE IF ~has_element(gen.ground, Len(gen.ground_sequence))
    THEN NoResults([gen EXCEPT !.afa_generator = a.gen])
    ELSE RuleSVEA_extend(gen,
             Append(gen.ground_sequence, element(gen.ground, Len(gen.ground_sequence))))

RuleSVEA_next(gen) ==
    IF ~gen.generator_some
    THEN RuleSVEA_make_next(
             [gen EXCEPT !.generator_some = TRUE,
                         !.afa_generator = AFAGeneratorNew(Normal(head(gen.ground), <<>>))],
             <<>>)
    ELSE RuleSVEA_application(gen, AFAGeneratorNext(gen.afa_generator))

\* ---- RuleSVEAC (rule_sveac.rs)
RuleSVEAC_new(pattern, ground, sv) ==
    IF sv.some
    THEN SomeRule([rule |-> "SVEAC", pattern |-> pattern, ground |-> ground,
                   named |-> sv.named, variable |-> sv.variable,
                   subset |-> SubsetEmpty(len(ground)),
                   complement |-> <<>>,
                   generator_some |-> ~sv.matches_empty,
                   afac_generator |-> AFACGeneratorNew(Normal(head(ground), <<>>))])
    ELSE NoRule

\* make_next, returned with the generator it was computed from.
RuleSVEAC_make_next(gen, ordered_sequence) ==
    SomeResults(gen,
        WithSubstitution(gen,
            ResultEquation(PatternRest(gen), Normal(head(gen.ground), gen.complement)),
            App("Sequence", ordered_sequence)))

RuleSVEAC_try_rule(eq) ==
    IF try_normal(eq.pattern) /\ try_normal(eq.ground) /\ has_element(eq.pattern, 0)
    THEN RuleSVEAC_new(eq.pattern, eq.ground,
                       parse_any_sequence_variable(element(eq.pattern, 0)))
    ELSE NoRule

\* The generator built for the next subset, and its first result.
RuleSVEAC_first(gen, b) ==
    IF b.some THEN RuleSVEAC_make_next([gen EXCEPT !.afac_generator = b.gen], b.result)
    ELSE NoResults(gen)

\* A faulty variant: only subsets that are a prefix of the arguments are taken.
RuleSVEAC_next_subset_prefix_only(gen, ns) ==
    IF ~ns.some \/ ns.subset.value # Pow2(SubsetCountOnes(ns.subset)) - 1
    THEN NoResults(gen)
    ELSE RuleSVEAC_first(
             [gen EXCEPT !.subset = ns.subset,
                         !.complement = ExtractComplement(ns.subset, elements(gen.ground))],
             AFACGeneratorNext(
                 AFACGeneratorNew(
                     Normal(head(gen.ground),
                            ExtractSubset(ns.subset, elements(gen.ground))))))

\* self.subset = self.subset.next()?, then extract and a new AFAC generator.
RuleSVEAC_next_subset(gen, ns) ==
    IF ~ns.some THEN NoResults(gen)
    ELSE RuleSVEAC_first(
             [gen EXCEPT !.subset = ns.subset,
                         !.complement = ExtractComplement(ns.subset, elements(gen.ground))],
             AFACGeneratorNext(
                 AFACGeneratorNew(
                     Normal(head(gen.ground),
                            ExtractSubset(ns.subset, elements(gen.ground))))))

\* match generator.next()
RuleSVEAC_application(gen, a) ==
    IF a.some THEN RuleSVEAC_make_next([gen EXCEPT !.afac_generator = a.gen], a.result)
    ELSE RuleSVEAC_next_subset([gen EXCEPT !.afac_generator = a.gen],
                               SubsetNext(gen.subset))

\* A faulty variant: the empty sequence is never given.
RuleSVEAC_next_empty_skipped(gen) ==
    RuleSVEAC_application([gen EXCEPT !.generator_some = TRUE],
                          AFACGeneratorNext(gen.afac_generator))

RuleSVEAC_next(gen) ==
    IF ~gen.generator_some
    THEN RuleSVEAC_make_next(
             [gen EXCEPT !.complement = elements(gen.ground),
                         !.generator_some = TRUE,
                         !.afac_generator =
                             AFACGeneratorNew(Normal(head(gen.ground), <<>>))],
             <<>>)
    ELSE RuleSVEAC_application(gen, AFACGeneratorNext(gen.afac_generator))

\* Iterator::next of a boxed MatchGenerator: dispatch on the rule.
MatchGenerator_next(gen) ==
    CASE gen.rule = "T"     -> RuleT_next(gen)
      [] gen.rule = "VE"    -> RuleVE_next(gen)
      [] gen.rule = "FVE"   -> RuleFVE_next(gen)
      [] gen.rule = "DNC"   -> RuleDNC_next(gen)
      [] gen.rule = "DC"    -> RuleDC_next(gen)
      [] gen.rule = "SVEF"  -> RuleSVEF_next(gen)
      [] gen.rule = "SVEC"  -> RuleSVEC_next(gen)
      [] gen.rule = "SVEA"  -> RuleSVEA_next(gen)
      [] gen.rule = "SVEAC" -> RuleSVEAC_next(gen)

(***************************************************************************)
(* Attributes and the attribute table of a Context (attributes.rs,        *)
(* context.rs).  An Attributes bitset is the set of the attributes it has. *)
(***************************************************************************)
get_attributes(context, symbol) ==
    IF symbol \in DOMAIN context.attributes THEN context.attributes[symbol] ELSE {}

(***************************************************************************)
(* Matcher (matching/matcher.rs).                                          *)
(***************************************************************************)
EmptyBindings == [x \in {} |-> EmptyFunction]

StackGenerator(gen) == [kind |-> "MatchGenerator", gen |-> gen, variable |-> "", added |-> 0]

StackSubstitution(variable) ==
    [kind |-> "Substitution", gen |-> NoGenerator, variable |-> variable, added |-> 0]

StackProducedMatchEquations(added) ==
    [kind |-> "ProducedMatchEquations", gen |-> NoGenerator, variable |-> "", added |-> added]

Matcher_new(pattern, ground) ==
    [match_stack |-> <<>>,
     equation_stack |-> <<MatchEquation(pattern, ground)>>,
     substitutions |-> EmptyBindings]

Front(s) == SubSeq(s, 1, Len(s) - 1)

Last(s) == s[Len(s)]

\* The first rule of the list whose try_rule accepts the equation.
RECURSIVE FirstRule(_)
FirstRule(rules) ==
    IF Len(rules) = 0 THEN NoRule
    ELSE IF Head(rules).some THEN Head(rules)
    ELSE FirstRule(Tail(rules))

OrElse(rule, other) == IF rule.some THEN rule ELSE other

\* The rules tried for two normal expressions of one head, by its attributes.
RuleByAttributes(eq, ground_attributes) ==
    IF "Commutative" \notin ground_attributes /\ "Associative" \notin ground_attributes
    THEN FirstRule(<<RuleDNC_try_rule(eq), RuleSVEF_try_rule(eq)>>)
    ELSE IF "Commutative" \in ground_attributes /\ "Associative" \notin ground_attributes
    THEN FirstRule(<<RuleDC_try_rule(eq), RuleSVEC_try_rule(eq)>>)
    ELSE IF "Commutative" \notin ground_attributes /\ "Associative" \in ground_attributes
    THEN FirstRule(<<RuleSVEA_try_rule(eq), RuleDNC_try_rule(eq)>>)
    ELSE FirstRule(<<RuleSVEAC_try_rule(eq), RuleDC_try_rule(eq)>>)

RuleByHead(eq, context) ==
    IF ~(try_normal(eq.pattern) /\ try_normal(eq.ground)) THEN NoRule
    ELSE IF ~(try_symbol(head(eq.pattern)) /\ try_symbol(head(eq.ground))) THEN NoRule
    ELSE IF head(eq.pattern) # head(eq.ground) THEN NoRule
    ELSE RuleByAttributes(eq, get_attributes(context, head(eq.ground).n))

\* The rule Matcher::select_rule builds for an equation, or none.
RuleFor(eq, context) ==
    OrElse(FirstRule(<<RuleT_try_rule(eq), RuleVE_try_rule(eq), RuleFVE_try_rule(eq)>>),
           RuleByHead(eq, context))

\* The selection made: the equation stays popped only when a rule was built.
Selected(m, rule) ==
    IF rule.some
    THEN [matcher |-> [m EXCEPT !.equation_stack = Front(m.equation_stack)],
          some |-> TRUE, gen |-> rule.gen]
    ELSE [matcher |-> m, some |-> FALSE, gen |-> NoGenerator]

\* Matcher::select_rule: pops the top equation and returns its generator; when
\* no rule applies the equation is pushed back (the stack is as before).
select_rule(m, context) ==
    IF Len(m.equation_stack) = 0 THEN [matcher |-> m, some |-> FALSE, gen |-> NoGenerator]
    ELSE Selected(m, RuleFor(Last(m.equation_stack), context))

RemoveKey(f, key) == [x \in DOMAIN f \ {key} |-> f[x]]

InsertKey(f, key, value) == [x \in DOMAIN f \cup {key} |-> IF x = key THEN value ELSE f[x]]

\* Matcher::undo: pops the match stack down to and including the generator on
\* top; ok is FALSE where the code panics (pop().unwrap() of an empty stack, or
\* the usize subtraction len - added below zero).
RECURSIVE undo(_)
undo(m) ==
    IF Len(m.match_stack) = 0 THEN [matcher |-> m, ok |-> FALSE, gen |-> NoGenerator]
    ELSE IF Last(m.match_stack).kind = "MatchGenerator"
    THEN [matcher |-> [m EXCEPT !.match_stack = Front(m.match_stack)],
          ok |-> TRUE, gen |-> Last(m.match_stack).gen]
    ELSE IF Last(m.match_stack).kind = "Substitution"
    THEN undo([m EXCEPT !.match_stack = Front(m.match_stack),
                        !.substitutions =
                            RemoveKey(m.substitutions, Last(m.match_stack).variable)])
    ELSE IF Last(m.match_stack).added > Len(m.equation_stack)
    THEN [matcher |-> [m EXCEPT !.match_stack = Front(m.match_stack)],
          ok |-> FALSE, gen |-> NoGenerator]
    ELSE undo([m EXCEPT !.match_stack = Front(m.match_stack),
                        !.equation_stack =
                            SubSeq(m.equation_stack, 1,
                                   Len(m.equation_stack) - Last(m.match_stack).added)])

\* self.equation_stack.push(match_generator.match_equation())
Restored(u) ==
    [matcher |-> IF u.ok
                 THEN [u.matcher EXCEPT !.equation_stack =
                           Append(u.matcher.equation_stack, match_equation(u.gen))]
                 ELSE u.matcher,
     ok |-> u.ok]

\* backtrack leaving the exhausted generator where it is.
backtrack_kept(m) == [matcher |-> m, ok |-> TRUE]

\* Matcher::backtrack
backtrack(m) == Restored(undo(m))

\* Matcher::process_match_list
RECURSIVE process_results(_, _, _)
process_results(m, results, equation_count) ==
    IF Len(results) = 0
    THEN IF equation_count > 0
         THEN [m EXCEPT !.match_stack =
                   Append(m.match_stack, StackProducedMatchEquations(equation_count))]
         ELSE m
    ELSE IF Head(results).kind = "Substitution"
    THEN process_results(
             [m EXCEPT !.substitutions =
                           InsertKey(m.substitutions, Head(results).variable,
                                     Head(results).ground),
                       !.match_stack =
                           Append(m.match_stack, StackSubstitution(Head(results).variable))],
             Tail(results), equation_count)
    ELSE process_results(
             [m EXCEPT !.equation_stack =
                  Append(m.equation_stack,
                         MatchEquation(Head(results).pattern, Head(results).ground))],
             Tail(results), equation_count + 1)

\* process_match_list that records its results and binds nothing.
process_match_list_unbound(m, results) ==
    [process_results(m, results, 0) EXCEPT !.substitutions = m.substitutions]

\* process_match_list with the count of the produced equations one too high.
process_match_list_one_more(m, results) == process_results(m, results, 1)

process_match_list(m, results) == process_results(m, results, 0)

\* The outcome of one stretch of Matcher::next: at is where control is next
\* ("step1", "step2"), or "return" with the Option returned, or "panic".
Outcome(m, at, some) ==
    [matcher |-> m, at |-> at, some |-> some,
     bindings |-> IF some THEN m.substitutions ELSE EmptyBindings]

\* The generator undo() returned is pushed back (lines 261-265, 300-302).
Retained(u) ==
    IF ~u.ok THEN Outcome(u.matcher, "panic", FALSE)
    ELSE Outcome([u.matcher EXCEPT !.match_stack =
                      Append(u.matcher.match_stack, StackGenerator(u.gen))],
                 "step2", FALSE)

Reactivate(m) == Retained(undo(m))

\* The entry check of Matcher::next.
Matcher_enter(m) ==
    IF Len(m.equation_stack) = 0 /\ Len(m.match_stack) = 0
    THEN Outcome(m, "return", FALSE)
    ELSE Outcome(m, "step1", FALSE)

\* match self.select_rule()
Matcher_selected(r) ==
    IF r.some
    THEN Outcome([r.matcher EXCEPT !.match_stack =
                      Append(r.matcher.match_stack, StackGenerator(r.gen))],
                 "step2", FALSE)
    ELSE IF Len(r.matcher.match_stack) = 0 THEN Outcome(r.matcher, "return", FALSE)
    ELSE Reactivate(r.matcher)

\* One pass of the head of 'step1: select a rule, or reactivate the generator
\* on top of the match stack.
Matcher_step1(m, context) == Matcher_selected(select_rule(m, context))

\* Succeed if the equation stack is empty, else continue 'step1.
Matcher_processed(m) ==
    IF Len(m.equation_stack) = 0 THEN Outcome(m, "return", TRUE)
    ELSE Outcome(m, "step1", FALSE)

\* After backtrack(): fail if there is no previous generator, else reactivate it.
Matcher_backtracked(b) ==
    IF ~b.ok THEN Outcome(b.matcher, "panic", FALSE)
    ELSE IF Len(b.matcher.match_stack) = 0 THEN Outcome(b.matcher, "return", FALSE)
    ELSE Reactivate(b.matcher)

\* match match_generator.next(), the generator left as next() advanced it.
Matcher_generated(m, r) ==
    IF r.some THEN Matcher_processed(process_match_list(m, r.results))
    ELSE Matcher_backtracked(backtrack(m))

Matcher_advanced(m, r) ==
    Matcher_generated([m EXCEPT !.match_stack[Len(m.match_stack)] = StackGenerator(r.gen)], r)

\* One pass of 'step2: call next() on the active generator.
Matcher_step2(m) ==
    IF Len(m.match_stack) = 0 THEN Outcome(m, "panic", FALSE)
    ELSE IF Last(m.match_stack).kind # "MatchGenerator" THEN Outcome(m, "panic", FALSE)
    ELSE Matcher_advanced(m, MatchGenerator_next(Last(m.match_stack).gen))

\* Matcher::next as a whole: the loop run until it returns or panics.
RECURSIVE Matcher_loop(_, _, _)
Matcher_continue(o, context) ==
    IF o.at \in {"return", "panic"} THEN o ELSE Matcher_loop(o.matcher, o.at, context)

Matcher_loop(m, at, context) ==
    Matcher_continue(IF at = "step1" THEN Matcher_step1(m, context) ELSE Matcher_step2(m),
                     context)

Matcher_next(m, context) ==
    IF Matcher_enter(m).at = "return" THEN Matcher_enter(m)
    ELSE Matcher_loop(m, "step1", context)

(***************************************************************************)
(* Context (context.rs): the attribute table, the definitions and the     *)
(* state version.                                                          *)
(***************************************************************************)
Context_new ==
    [attributes |-> [x \in {} |-> {}],
     definitions |-> [x \in {} |-> <<>>],
     state_version |-> 0]

set_attributes(context, symbol, new_attributes) ==
    IF "AttributesReadOnly" \in get_attributes(context, symbol)
    THEN [context |-> context, ok |-> FALSE]
    ELSE [context |-> [context EXCEPT !.attributes =
                           InsertKey(context.attributes, symbol, new_attributes)],
          ok |-> TRUE]

\* The context of the matcher tests: fc Commutative, fa Associative, fac both.
TestContext ==
    LET c1 == set_attributes(Context_new, "fc", {"Commutative"}).context
        c2 == set_attributes(c1, "fa", {"Associative"}).context
    IN  set_attributes(c2, "fac", {"Associative", "Commutative"}).context

(***************************************************************************)
(* Symbol values and the rule lists of a Context (context.rs).             *)
(***************************************************************************)
NoCondition == [some |-> FALSE, expr |-> Sym("Null")]

SomeCondition(expr) == [some |-> TRUE, expr |-> expr]

\* SymbolValue::Definitions
Definitions(pattern, condition, ground) ==
    [kind |-> "Definitions", pattern |-> pattern, condition |-> condition,
     ground |-> ground, built_in |-> ""]

\* SymbolValue::BuiltIn; the function pointer is the name of the built-in.
BuiltIn(pattern, built_in) ==
    [kind |-> "BuiltIn", pattern |-> pattern, condition |-> NoCondition,
     ground |-> Sym("Null"), built_in |-> built_in]

\* SymbolValue::BuiltInMut
BuiltInMut(pattern, built_in) ==
    [kind |-> "BuiltInMut", pattern |-> pattern, condition |-> NoCondition,
     ground |-> Sym("Null"), built_in |-> built_in]

\* PartialEq for SymbolValue: the function pointers are not compared.
SymbolValueEq(v1, v2) ==
    /\ v1.kind = v2.kind
    /\ v1.pattern = v2.pattern
    /\ v1.condition = v2.condition
    /\ (v1.kind = "Definitions" => v1.ground = v2.ground)

\* Vec::contains under that equality.
Contains(values, value) == \E i \in DOMAIN values : SymbolValueEq(values[i], value)

SymbolDefinition_empty ==
    [own_values |-> <<>>, up_values |-> <<>>, down_values |-> <<>>, sub_values |-> <<>>]

\* Context::get_definition_mut: the context with the symbol's entry present.
get_definition_mut(context, symbol) ==
    IF symbol \in DOMAIN context.definitions THEN context
    ELSE [context EXCEPT !.definitions = InsertKey(@, symbol, SymbolDefinition_empty)]

\* The tail shared by set_own_value, set_up_value, set_down_value and
\* set_sub_value once the entry is there: nothing for a value the list
\* contains, else push and bump state_version.
push_value(context, symbol, list, value) ==
    IF Contains(context.definitions[symbol][list], value)
    THEN [context |-> context, ok |-> TRUE]
    ELSE [context |-> [context EXCEPT !.definitions[symbol][list] = Append(@, value),
                                      !.state_version = @ + 1],
          ok |-> TRUE]

\* The setters with the ReadOnly check made after the store.
set_list_value_checked_late(context, symbol, list, value) ==
    [context |-> push_value(get_definition_mut(context, symbol), symbol, list, value).context,
     ok |-> "ReadOnly" \notin get_attributes(context, symbol)]

\* The four setters differ in the list they push to.
set_list_value(context, symbol, list, value) ==
    IF "ReadOnly" \in get_attributes(context, symbol)
    THEN [context |-> context, ok |-> FALSE]
    ELSE push_value(get_definition_mut(context, symbol), symbol, list, value)

set_own_value(context, symbol, value) == set_list_value(context, symbol, "own_values", value)

set_up_value(context, symbol, value) == set_list_value(context, symbol, "up_values", value)

set_down_value(context, symbol, value) == set_list_value(context, symbol, "down_values", value)

set_sub_value(context, symbol, value) == set_list_value(context, symbol, "sub_values", value)

clear_symbol(context, symbol) ==
    IF "ReadOnly" \in get_attributes(context, symbol)
    THEN [context |-> context, ok |-> FALSE]
    ELSE [context |-> [attributes |-> RemoveKey(context.attributes, symbol),
                       definitions |-> RemoveKey(context.definitions, symbol),
                       state_version |-> context.state_version + 1],
          ok |-> TRUE]

\* The list a ValueType names.
ValueList(value_type) ==
    CASE value_type = "OwnValue" -> "own_values"
      [] value_type = "UpValue" -> "up_values"
      [] value_type = "DownValue" -> "down_values"
      [] value_type = "SubValue" -> "sub_values"

\* Context::set_value(symbol, value_type, value): the setter of that list.
set_value(context, symbol, value_type, value) ==
    set_list_value(context, symbol, ValueList(value_type), value)

\* Context::get_values(symbol, value_type): the ordered rule list, or absent
\* for a symbol without an entry.
get_values(context, symbol, value_type) ==
    IF symbol \in DOMAIN context.definitions
    THEN [some |-> TRUE, values |-> context.definitions[symbol][ValueList(value_type)]]
    ELSE [some |-> FALSE, values |-> <<>>]

\* Expr::name
RECURSIVE Expr_name(_)
Expr_name(expr) ==
    IF expr.t = "Symbol" THEN [some |-> TRUE, symbol |-> expr.n]
    ELSE IF expr.t = "Normal" THEN Expr_name(head(expr))
    ELSE [some |-> FALSE, symbol |-> ""]

\* Expr::head
Expr_head(expr) ==
    IF expr.t = "Normal" THEN head(expr) ELSE Sym(expr.t)

\* extract_condition: ground and condition of `ground /; condition`.
extract_condition(expr) ==
    IF is_normal_head(expr, "Condition") /\ len(expr) = 2
    THEN [ground |-> element(expr, 0), condition |-> SomeCondition(element(expr, 1))]
    ELSE [ground |-> expr, condition |-> NoCondition]

(***************************************************************************)
(* The evaluator (evaluate.rs).  An EvalResult carries the context the     *)
(* step left behind; panic marks a step the code aborts in.                *)
(***************************************************************************)
Changed(expr, context) ==
    [changed |-> TRUE, expr |-> expr, context |-> context, panic |-> FALSE]

Unchanged(expr, context) ==
    [changed |-> FALSE, expr |-> expr, context |-> context, panic |-> FALSE]

Panicked(expr, context) ==
    [changed |-> FALSE, expr |-> expr, context |-> context, panic |-> TRUE]

RECURSIVE replace_all(_, _)
RECURSIVE replace_all_each(_, _)
RECURSIVE ExprsOf(_)

ExprsOf(results) ==
    IF results = <<>> THEN <<>> ELSE <<Head(results).expr>> \o ExprsOf(Tail(results))

\* The head and the elements rebuilt from their replacements.
Replaced(results) ==
    [changed |-> \E i \in DOMAIN results : results[i].changed,
     expr |-> Normal(Head(ExprsOf(results)), Tail(ExprsOf(results)))]

replace_all_each(bindings, exprs) ==
    IF exprs = <<>> THEN <<>>
    ELSE <<replace_all(bindings, Head(exprs))>> \o replace_all_each(bindings, Tail(exprs))

replace_all(bindings, expr) ==
    IF expr.t = "Symbol"
    THEN IF expr.n \in DOMAIN bindings
         THEN [changed |-> TRUE, expr |-> bindings[expr.n]]
         ELSE [changed |-> FALSE, expr |-> expr]
    ELSE IF expr.t = "Normal" THEN Replaced(replace_all_each(bindings, expr.e))
    ELSE [changed |-> FALSE, expr |-> expr]

\* UnevaluatedRule, or None; panic where the lookup aborts.
NoUnevaluatedRule == [some |-> FALSE, panic |-> FALSE]

UnevaluatedRule(value, bindings) ==
    [some |-> TRUE, panic |-> FALSE, value |-> value, bindings |-> bindings]

LookupPanicked == [some |-> FALSE, panic |-> TRUE]

RECURSIVE first_matching(_, _, _, _)

\* One round of the loop over the values: the matcher's first solution
\* decides; a value with a condition reaches todo!().
matched_value(values, i, ground, context, outcome) ==
    IF outcome.at = "panic" THEN LookupPanicked
    ELSE IF outcome.some
         THEN IF values[i].condition.some THEN LookupPanicked
              ELSE UnevaluatedRule(values[i], outcome.bindings)
         ELSE first_matching(values, i + 1, ground, context)

first_matching(values, i, ground, context) ==
    IF i > Len(values) THEN NoUnevaluatedRule
    ELSE matched_value(values, i, ground, context,
                       Matcher_next(Matcher_new(values[i].pattern, ground), context))

find_matching_values(values, ground, context) ==
    IF values.some THEN first_matching(values.values, 1, ground, context)
    ELSE NoUnevaluatedRule

find_matching_definition(ground, symbol, value_type, context) ==
    find_matching_values(get_values(context, symbol, value_type), ground, context)

(***************************************************************************)
(* The built-ins (builtins/mod.rs).                                        *)
(***************************************************************************)
\* The outcome of a set_value(...).unwrap().
Unwrapped(r) == [context |-> r.context, panic |-> ~r.ok]

declare_value(pattern, extracted) ==
    Definitions(pattern, extracted.condition, extracted.ground)

\* declare_rule past `pattern.name().unwrap()`.
declare_named(pattern, value, symbol, context) ==
    IF pattern.t = "Symbol" THEN Unwrapped(set_value(context, symbol, "OwnValue", value))
    ELSE IF pattern.t = "Normal" THEN Unwrapped(set_value(context, symbol, "DownValue", value))
    ELSE [context |-> context, panic |-> TRUE]

declare_rule(pattern, ground, context) ==
    IF Expr_name(pattern).some
    THEN declare_named(pattern, declare_value(pattern, extract_condition(ground)),
                       Expr_name(pattern).symbol, context)
    ELSE [context |-> context, panic |-> TRUE]

\* What Set and SetDelayed return once the rule is declared.
Declared(declared, expr) ==
    IF declared.panic THEN Panicked(expr, declared.context)
    ELSE Changed(expr, declared.context)

Set_built_in(arguments, context) ==
    Declared(declare_rule(arguments["lhs"], arguments["rhs"], context),
             App("Hold", <<arguments["rhs"]>>))

SetDelayed_built_in(arguments, context) ==
    Declared(declare_rule(arguments["lhs"], arguments["rhs"], context), Sym("Null"))

Head_built_in(arguments, context) ==
    Changed(Expr_head(arguments["expr"]), context)

Head_with_built_in(arguments, context) ==
    Changed(Normal(arguments["h"], <<Expr_head(arguments["expr"])>>), context)

IsInteger(expr) == expr.t = "Integer"

IsNotInteger(expr) == expr.t # "Integer"

RECURSIVE IntegerSum(_)
IntegerSum(exprs) ==
    IF exprs = <<>> THEN 0
    ELSE (IF IsInteger(Head(exprs)) THEN Head(exprs).i ELSE 0) + IntegerSum(Tail(exprs))

RECURSIVE IntegerProduct(_)
IntegerProduct(exprs) ==
    IF exprs = <<>> THEN 1
    ELSE (IF IsInteger(Head(exprs)) THEN Head(exprs).i ELSE 1) * IntegerProduct(Tail(exprs))

\* The accumulator kept below 4, as one too narrow for it would be.
Accumulated_capped(exprs, int_accumulator) ==
    SelectSeq(exprs, IsNotInteger)
        \o (IF int_accumulator = 0 THEN <<>>
            ELSE IF int_accumulator > 3 THEN <<Integer(3)>>
            ELSE <<Integer(int_accumulator)>>)

\* The accumulator pushed whatever its value.
Accumulated_zero_kept(exprs, int_accumulator) ==
    SelectSeq(exprs, IsNotInteger) \o <<Integer(int_accumulator)>>

\* The elements kept, then the integer accumulator unless it is 0.
Accumulated(exprs, int_accumulator) ==
    SelectSeq(exprs, IsNotInteger)
        \o (IF int_accumulator # 0 THEN <<Integer(int_accumulator)>> ELSE <<>>)

\* The result Plus and Times build from the new elements.
Folded(symbol, identity, new_elements, expr_elements, expr, context) ==
    IF Len(new_elements) = 0 THEN Changed(Integer(identity), context)
    ELSE IF Len(new_elements) = 1 THEN Changed(new_elements[1], context)
    ELSE IF new_elements # expr_elements THEN Changed(App(symbol, new_elements), context)
    ELSE Unchanged(expr, context)

\* Real arguments are outside the expressions modelled here.
Plus_built_in(arguments, expr, context) ==
    IF try_sequence(arguments["exprs"])
    THEN Folded("Plus", 0,
                Accumulated(elements(arguments["exprs"]),
                            IntegerSum(elements(arguments["exprs"]))),
                elements(arguments["exprs"]), expr, context)
    ELSE Panicked(expr, context)

Times_built_in(arguments, expr, context) ==
    IF try_sequence(arguments["exprs"])
    THEN Folded("Times", 1,
                Accumulated(elements(arguments["exprs"]),
                            IntegerProduct(elements(arguments["exprs"]))),
                elements(arguments["exprs"]), expr, context)
    ELSE Panicked(expr, context)

Subtract_built_in(arguments, context) ==
    Changed(App("Plus", <<arguments["lhs"],
                          App("Times", <<Integer(-1), arguments["rhs"]>>)>>),
            context)

\* The call through the function pointer of a BuiltIn or BuiltInMut value.
built_in(value, arguments, expr, context) ==
    CASE value.built_in = "Set" -> Set_built_in(arguments, context)
      [] value.built_in = "SetDelayed" -> SetDelayed_built_in(arguments, context)
      [] value.built_in = "Head" -> Head_built_in(arguments, context)
      [] value.built_in = "HeadWith" -> Head_with_built_in(arguments, context)
      [] value.built_in = "Plus" -> Plus_built_in(arguments, expr, context)
      [] value.built_in = "Times" -> Times_built_in(arguments, expr, context)
      [] value.built_in = "Subtract" -> Subtract_built_in(arguments, context)

\* A registration: the rule, then the attributes, each unwrapped.
Registered(context, symbol, value, attributes) ==
    set_attributes(set_value(context, symbol, "DownValue", value).context,
                   symbol, attributes).context

register_set_builtin(context) ==
    Registered(context, "Set",
               BuiltInMut(App("Set", <<Pattern("lhs", Blank), Pattern("rhs", Blank)>>), "Set"),
               {"ReadOnly", "AttributesReadOnly", "HoldFirst", "HoldSequence"})

register_set_delayed_builtin(context) ==
    Registered(context, "SetDelayed",
               BuiltInMut(App("SetDelayed", <<Pattern("lhs", Blank), Pattern("rhs", Blank)>>),
                          "SetDelayed"),
               {"ReadOnly", "AttributesReadOnly", "HoldAll", "HoldSequence"})

register_head_builtin(context) ==
    Registered(set_value(context, "Head", "DownValue",
                         BuiltIn(App("Head", <<Pattern("expr", Blank)>>), "Head")).context,
               "Head",
               BuiltIn(App("Head", <<Pattern("expr", Blank), Pattern("h", Blank)>>), "HeadWith"),
               {"ReadOnly", "AttributesReadOnly"})

register_plus_builtin(context) ==
    Registered(context, "Plus",
               BuiltIn(App("Plus", <<Pattern("exprs", BlankNullSequence)>>), "Plus"),
               {"ReadOnly", "AttributesReadOnly", "Associative", "Commutative"})

register_times_builtin(context) ==
    Registered(context, "Times",
               BuiltIn(App("Times", <<Pattern("exprs", BlankNullSequence)>>), "Times"),
               {"ReadOnly", "AttributesReadOnly", "Associative", "Commutative"})

register_subtract_builtin(context) ==
    Registered(context, "Subtract",
               BuiltIn(App("Subtract", <<Pattern("lhs", Blank), Pattern("rhs", Blank)>>),
                       "Subtract"),
               {"ReadOnly", "AttributesReadOnly"})

register_builtins(context) ==
    register_subtract_builtin(
        register_times_builtin(
            register_plus_builtin(
                register_head_builtin(
                    register_set_delayed_builtin(
                        register_set_builtin(context))))))

new_global_context == register_builtins(Context_new)

(***************************************************************************)
(* evaluate_step (evaluate.rs): one pass over an expression.               *)
(***************************************************************************)
\* UnevaluatedRule::apply
WithContext(result, context) ==
    [changed |-> result.changed, expr |-> result.expr, context |-> context, panic |-> FALSE]

apply(rule, expr, context) ==
    IF rule.value.kind = "Definitions"
    THEN WithContext(replace_all(rule.bindings, rule.value.ground), context)
    ELSE built_in(rule.value, rule.bindings, expr, context)

\* The tail of both arms: no rule leaves the expression the step was given.
applied(rule, expr, context) ==
    IF rule.panic THEN Panicked(expr, context)
    ELSE IF rule.some THEN apply(rule, expr, context)
    ELSE Unchanged(expr, context)

\* Whether element i of an expression whose head has these attributes is held.
Held(attributes, i) ==
    \/ "HoldAll" \in attributes
    \/ "HoldAllComplete" \in attributes
    \/ ("HoldFirst" \in attributes /\ i = 0)
    \/ ("HoldRest" \in attributes /\ i > 0)

HeadAttributes(head_name, context) ==
    IF head_name.some THEN get_attributes(context, head_name.symbol) ELSE {}

\* The elements evaluated so far joined by the result of the next one.
Collected(sofar, result) ==
    [changed |-> sofar.changed \/ result.changed,
     elements |-> Append(sofar.elements, result.expr),
     context |-> result.context,
     panic |-> result.panic]

Kept(sofar, elem) == [sofar EXCEPT !.elements = Append(@, elem)]

RECURSIVE evaluate_step(_, _)
RECURSIVE evaluate_elements(_, _, _, _)

\* The map over the elements, left to right, element i (0-based) next.
evaluate_elements(elems, i, attributes, sofar) ==
    IF sofar.panic \/ i = Len(elems) THEN sofar
    ELSE IF Held(attributes, i)
         THEN evaluate_elements(elems, i + 1, attributes, Kept(sofar, elems[i + 1]))
         ELSE evaluate_elements(elems, i + 1, attributes,
                                Collected(sofar, evaluate_step(elems[i + 1], sofar.context)))

\* The step from the rebuilt expression on.
evaluate_rebuilt(expr, new_expr, changed, context) ==
    IF changed THEN Changed(new_expr, context)
    ELSE IF Expr_name(new_expr).some
         THEN applied(find_matching_definition(new_expr, Expr_name(new_expr).symbol,
                                               "DownValue", context),
                      expr, context)
         ELSE Unchanged(new_expr, context)

evaluate_collected(expr, head_eval, collected) ==
    IF collected.panic THEN Panicked(expr, collected.context)
    ELSE evaluate_rebuilt(expr, Normal(head_eval, collected.elements),
                          collected.changed, collected.context)

evaluate_normal(expr, head_result) ==
    IF head_result.panic THEN head_result
    ELSE evaluate_collected(expr, head_result.expr,
             evaluate_elements(elements(expr), 0,
                               HeadAttributes(Expr_name(head_result.expr), head_result.context),
                               [changed |-> head_result.changed, elements |-> <<>>,
                                context |-> head_result.context, panic |-> FALSE]))

evaluate_step(expr, context) ==
    IF expr.t = "Symbol"
    THEN applied(find_matching_definition(expr, expr.n, "OwnValue", context), expr, context)
    ELSE IF expr.t = "Normal"
         THEN evaluate_normal(expr, evaluate_step(head(expr), context))
         ELSE Unchanged(expr, context)

\* evaluate as one function: passes of evaluate_step until a pass neither
\* changes the expression nor the state_version; `some` is false for a panic
\* and when the passes allowed are used up.
RECURSIVE evaluate(_, _, _)

evaluate_again(step, context, passes_left) ==
    IF step.panic THEN [some |-> FALSE, expr |-> step.expr, context |-> step.context]
    ELSE IF ~step.changed /\ step.context.state_version = context.state_version
    THEN [some |-> TRUE, expr |-> step.expr, context |-> step.context]
    ELSE IF passes_left = 0 THEN [some |-> FALSE, expr |-> step.expr, context |-> step.context]
    ELSE evaluate(step.expr, step.context, passes_left - 1)

evaluate(expr, context, passes_left) ==
    evaluate_again(evaluate_step(expr, context), context, passes_left)

(***************************************************************************)
(* Bounds of the checked instances.                                        *)
(***************************************************************************)
\* Largest number of arguments of a ground expression.
MaxArity == 3

\* Largest number of elements of a pattern.
MaxPatLen == 3

\* Largest number of sequence variables in one pattern.
MaxSeqVars == 2

\* Calls of next made on a matcher after it first returned None.
MaxCallsAfterNone == 1

\* Largest number of arguments of a function an AFAGenerator is built for.
MaxArguments == 5

\* Calls of evaluate on user terms in one session.
MaxEvaluations == 3

\* Passes of evaluate_step one call of evaluate is followed for.
MaxPasses == 4

\* Calls of Context operations made on one context.
MaxOperations == 3

\* Largest k for which f[k] is asked of the Fibonacci program.
MaxArgument == 5

\* Terms f[k] asked of the program in one session.
MaxQueries == 2

\* Passes of evaluate_step one query of the program is followed for.
MaxProgramPasses == 20

\* Elements a permutation generator is asked for.
MaxElements == 260

\* Positions of a Subset driven on its own.
MaxPositions == 6

\* Elements of a PermutationGenerator32 driven on its own.
MaxPermuted == 5

\* Elements of a pattern whose matcher is run under fairness.
MaxTerminatingPatLen == 2

\* Arguments of a term the old evaluator is called on.
MaxOldArguments == 2

\* Turns of the loop of the old eval that change the term.
MaxOldPasses == 4

(***************************************************************************)
(* The expressions the matcher is run on, as the parser builds them.       *)
(***************************************************************************)
Heads == {"f", "fc", "fa", "fac"}

GroundAtoms == <<Sym("a"), Sym("b"), Sym("c"), Sym("d"), Sym("e"), Sym("g"), Sym("h")>>

GroundArguments(n) == SubSeq(GroundAtoms, 1, n)

IndividualElements ==
    {Sym("a"), Sym("c"), Pattern("x", Blank), Pattern("y", Blank)}

SequenceElements ==
    {Pattern("xs", BlankSequence), Pattern("ys", BlankSequence),
     Pattern("xs", BlankNullSequence), Pattern("ys", BlankNullSequence)}

CountSequenceElements(body) ==
    Cardinality({i \in DOMAIN body : body[i] \in SequenceElements})

PatternBodies ==
    {body \in UNION {[1..k -> IndividualElements \cup SequenceElements] : k \in 0..MaxPatLen} :
        CountSequenceElements(body) <= MaxSeqVars}

(***************************************************************************)
(* The state: one Matcher, driven by calls of next.                        *)
(***************************************************************************)
VARIABLES
    pattern,    \* the pattern the matcher was built for
    ground,     \* the ground expression it was built for
    context,    \* the Context the matcher borrows
    matcher,    \* the Matcher: match stack, equation stack, substitutions
    pc,         \* where Matcher::next stands: idle (not in a call), step1, step2, panic
    calls,      \* the number of calls of next that have returned
    returned,   \* what the latest of them returned
    none_at,    \* the call that first returned None (0: none has yet)
    selections, \* for each generator on the match stack, the stacks it was selected at
    driven,     \* a Subset, permutation generator, AFACGenerator or RuleSVEAC driven on its own
    afa,        \* an AFAGenerator driven on its own
    term,       \* the expression the running call of evaluate is at
    input,      \* the expression the outermost call of evaluate was given
    output,     \* what the latest completed evaluate returned
    passes,     \* the passes the running evaluate has made
    evaluations,\* the user terms evaluated so far
    again,      \* whether the latest evaluate was given the result before it
    operation,  \* the latest call of a Context operation and what it returned
    operations, \* the calls of Context operations made so far
    function_len, \* the elements a permutation generator is asked for
    constructed \* what became of building that generator

matcher_vars == <<pattern, ground, matcher, calls, returned, none_at, selections, driven, afa>>

evaluator_vars == <<term, input, output, passes, evaluations, again>>

operation_vars == <<operation, operations>>

construction_vars == <<function_len, constructed>>

vars == <<pattern, ground, context, matcher, pc, calls, returned, none_at, selections, driven,
          afa,
          term, input, output, passes, evaluations, again, operation, operations,
          function_len, constructed>>

\* No evaluation has been asked for.
EvaluatorIdle ==
    /\ term = Sym("Null")
    /\ input = Sym("Null")
    /\ output = Sym("Null")
    /\ passes = 0
    /\ evaluations = 0
    /\ again = FALSE

\* A call of a Context operation: its arguments and whether it returned Ok.
Operation(kind, symbol, value, attributes, ok) ==
    [kind |-> kind, symbol |-> symbol, value |-> value, attributes |-> attributes,
     ok |-> ok]

\* No Context operation has been called from outside.
NoOperations ==
    /\ operation = Operation("", "", BuiltIn(Sym("Null"), ""), {}, TRUE)
    /\ operations = 0

\* No generator is driven on its own.
NotDriven == [kind |-> "", gen |-> 0]

\* No permutation generator has been built on its own.
NoConstruction ==
    /\ function_len = 0
    /\ constructed = [done |-> FALSE, panic |-> FALSE, nb_elems |-> 0]

Return(some, bindings) == [some |-> some, bindings |-> bindings]

CallsAfterNone == IF none_at = 0 THEN 0 ELSE calls - none_at

Init ==
    /\ \E h \in Heads, n \in 0..MaxArity, body \in PatternBodies :
          /\ pattern = App(h, body)
          /\ ground = App(h, GroundArguments(n))
    /\ context = TestContext
    /\ matcher = Matcher_new(pattern, ground)
    /\ selections = <<>>
    /\ driven = NotDriven
    /\ pc = "idle"
    /\ calls = 0
    /\ returned = Return(FALSE, EmptyBindings)
    /\ none_at = 0
    /\ afa = AFAGeneratorNew(EmptyFunction)
    /\ EvaluatorIdle
    /\ NoOperations
    /\ NoConstruction

\* The generators on the match stack.
Generators(m) ==
    Cardinality({i \in DOMAIN m.match_stack : m.match_stack[i].kind = "MatchGenerator"})

\* The equation stack and the bindings of a matcher.
Stacks(m) == [equation_stack |-> m.equation_stack, substitutions |-> m.substitutions]

\* The record of selections after a stretch from m to after: a generator
\* pushed was selected at the stacks of m; a generator removed is forgotten.
Selections(m, after) ==
    IF Generators(after) > Generators(m) THEN Append(selections, Stacks(m))
    ELSE IF Generators(after) < Generators(m) THEN Front(selections)
    ELSE selections

\* Control moves on as the outcome says; a return ends the call.
Advance(o) ==
    /\ matcher' = o.matcher
    /\ selections' = Selections(matcher, o.matcher)
    /\ pc' = IF o.at = "return" THEN "idle" ELSE o.at
    /\ calls' = IF o.at = "return" THEN calls + 1 ELSE calls
    /\ returned' = IF o.at = "return" THEN Return(o.some, o.bindings) ELSE returned
    /\ none_at' = IF o.at = "return" /\ ~o.some /\ none_at = 0 THEN calls + 1 ELSE none_at
    /\ UNCHANGED <<pattern, ground, context, afa, driven>>
    /\ UNCHANGED evaluator_vars
    /\ UNCHANGED operation_vars
    /\ UNCHANGED construction_vars

\* A call of Matcher::next enters.
NextEnter ==
    /\ pc = "idle"
    /\ CallsAfterNone < MaxCallsAfterNone
    /\ Advance(Matcher_enter(matcher))

NextStep1 ==
    /\ pc = "step1"
    /\ Advance(Matcher_step1(matcher, context))

NextStep2 ==
    /\ pc = "step2"
    /\ Advance(Matcher_step2(matcher))

Next == NextEnter \/ NextStep1 \/ NextStep2

Spec == Init /\ [][Next]_vars

\* Whether a stretch of Matcher::next leaves the state another one.
Moves(o) == o.at = "return" \/ o.at # pc \/ o.matcher # matcher

\* ENABLED <<Next>>_vars, written out as a state predicate.
NextEnabled ==
    \/ pc = "idle" /\ CallsAfterNone < MaxCallsAfterNone /\ Moves(Matcher_enter(matcher))
    \/ pc = "step1" /\ Moves(Matcher_step1(matcher, context))
    \/ pc = "step2" /\ Moves(Matcher_step2(matcher))

\* Weak fairness of Next - WF_vars(Next) with its ENABLED written out: the
\* loop of next is sequential code that runs on, and the caller goes on
\* calling next.
NextFair == []<>(~NextEnabled) \/ []<><<Next>>_vars

InitTerminating == Init /\ Len(elements(pattern)) <= MaxTerminatingPatLen

SpecTerminating == InitTerminating /\ [][Next]_vars /\ NextFair

(***************************************************************************)
(* An AFAGenerator driven by calls of next.                                *)
(***************************************************************************)
AFAReturn(some, result) == [some |-> some, result |-> result]

InitAFA ==
    /\ \E h \in Heads, n \in 0..MaxArguments :
          /\ ground = App(h, GroundArguments(n))
          /\ afa = AFAGeneratorNew(ground)
    /\ pattern = EmptyFunction
    /\ context = TestContext
    /\ matcher = Matcher_new(pattern, ground)
    /\ selections = <<>>
    /\ driven = NotDriven
    /\ pc = "idle"
    /\ calls = 0
    /\ returned = AFAReturn(FALSE, <<>>)
    /\ none_at = 0
    /\ EvaluatorIdle
    /\ NoOperations
    /\ NoConstruction

\* The generator moves on as next() left it and the result is recorded.
AFAAdvance(r) ==
    /\ afa' = r.gen
    /\ calls' = calls + 1
    /\ returned' = AFAReturn(r.some, r.result)
    /\ none_at' = IF ~r.some /\ none_at = 0 THEN calls + 1 ELSE none_at
    /\ UNCHANGED <<pattern, ground, context, matcher, pc, selections, driven>>
    /\ UNCHANGED evaluator_vars
    /\ UNCHANGED operation_vars
    /\ UNCHANGED construction_vars

\* A call of AFAGenerator::next.
AFANext ==
    /\ CallsAfterNone < MaxCallsAfterNone
    /\ AFAAdvance(AFAGeneratorNext(afa))

NextAFA == AFANext

SpecAFA == InitAFA /\ [][NextAFA]_vars

(***************************************************************************)
(* The generators of the matcher driven on their own by calls of next: a   *)
(* Subset from Subset::empty(n), a PermutationGenerator32 over n elements, *)
(* an AFACGenerator over the arguments of the ground, and the RuleSVEAC    *)
(* built for fac[xs__, ...] or fac[xs___, ...] against the ground.         *)
(***************************************************************************)
\* fac[p], fac[p, y_] and fac[p, a] for the sequence variables p, named or not.
DrivenPatterns ==
    {App("fac", <<p>> \o rest) :
        p \in {Pattern("xs", BlankSequence), Pattern("xs", BlankNullSequence),
               BlankSequence, BlankNullSequence},
        rest \in {<<>>, <<Pattern("y", Blank)>>, <<Sym("a")>>}}

InitGenerators ==
    /\ \/ \E n \in 0..MaxPositions :
             /\ driven = [kind |-> "Subset", gen |-> SubsetEmpty(n)]
             /\ pattern = EmptyFunction
             /\ ground = EmptyFunction
       \/ \E n \in 0..MaxPermuted :
             /\ driven = [kind |-> "Permutations", gen |-> PermutationGenerator32New(n)]
             /\ pattern = EmptyFunction
             /\ ground = EmptyFunction
       \/ \E h \in Heads, n \in 0..MaxArity :
             /\ ground = App(h, GroundArguments(n))
             /\ driven = [kind |-> "AFAC", gen |-> AFACGeneratorNew(ground)]
             /\ pattern = EmptyFunction
       \/ \E p \in DrivenPatterns, n \in 0..MaxArity :
             /\ pattern = p
             /\ ground = App("fac", GroundArguments(n))
             /\ driven = [kind |-> "SVEAC",
                          gen |-> RuleSVEAC_try_rule(MatchEquation(pattern, ground)).gen]
    /\ context = TestContext
    /\ matcher = Matcher_new(pattern, ground)
    /\ selections = <<>>
    /\ pc = "idle"
    /\ calls = 0
    /\ returned = AFAReturn(FALSE, <<>>)
    /\ none_at = 0
    /\ afa = AFAGeneratorNew(EmptyFunction)
    /\ EvaluatorIdle
    /\ NoOperations
    /\ NoConstruction

\* The generator is left as next() left it and what next() returned is recorded.
Driven(gen, some, result) ==
    /\ driven' = [driven EXCEPT !.gen = gen]
    /\ calls' = calls + 1
    /\ returned' = AFAReturn(some, result)
    /\ none_at' = IF ~some /\ none_at = 0 THEN calls + 1 ELSE none_at
    /\ UNCHANGED <<pattern, ground, context, matcher, pc, selections, afa>>
    /\ UNCHANGED evaluator_vars
    /\ UNCHANGED operation_vars
    /\ UNCHANGED construction_vars

\* subset = subset.next()?: the subset is replaced by the one returned; its
\* mask is recorded as <<value>>.
SubsetReplaced(r) ==
    Driven(IF r.some THEN r.subset ELSE driven.gen, r.some,
           IF r.some THEN <<r.subset.value>> ELSE <<>>)

SubsetNextCall ==
    /\ driven.kind = "Subset"
    /\ CallsAfterNone < MaxCallsAfterNone
    /\ SubsetReplaced(SubsetNext(driven.gen))

PermutationReturned(r) == Driven(r.gen, r.some, r.permutation)

PermutationNextCall ==
    /\ driven.kind = "Permutations"
    /\ CallsAfterNone < MaxCallsAfterNone
    /\ PermutationReturned(PermutationGenerator32Next(driven.gen))

AFACReturned(r) == Driven(r.gen, r.some, r.result)

AFACNextCall ==
    /\ driven.kind = "AFAC"
    /\ CallsAfterNone < MaxCallsAfterNone
    /\ AFACReturned(AFACGeneratorNext(driven.gen))

SVEACReturned(r) == Driven(r.gen, r.some, r.results)

SVEACNextCall ==
    /\ driven.kind = "SVEAC"
    /\ CallsAfterNone < MaxCallsAfterNone
    /\ SVEACReturned(RuleSVEAC_next(driven.gen))

NextGenerators == SubsetNextCall \/ PermutationNextCall \/ AFACNextCall \/ SVEACNextCall

SpecGenerators == InitGenerators /\ [][NextGenerators]_vars

(***************************************************************************)
(* The permutation generator built for a given number of elements: the     *)
(* arguments of a function handed to AFACGenerator::new, or the elements   *)
(* of a subset reached by RuleSVEC::next.                                  *)
(***************************************************************************)
InitArity ==
    /\ function_len \in 0..MaxElements
    /\ constructed = [done |-> FALSE, panic |-> FALSE, nb_elems |-> 0]
    /\ pattern = EmptyFunction
    /\ ground = EmptyFunction
    /\ context = TestContext
    /\ matcher = Matcher_new(pattern, ground)
    /\ selections = <<>>
    /\ driven = NotDriven
    /\ pc = "idle"
    /\ calls = 0
    /\ returned = Return(FALSE, EmptyBindings)
    /\ none_at = 0
    /\ afa = AFAGeneratorNew(EmptyFunction)
    /\ EvaluatorIdle
    /\ NoOperations

\* PermutationGenerator32::new(function.len() as u8)
NewPermutations ==
    /\ ~constructed.done
    /\ constructed' = PermutationGenerator32New_for(function_len)
    /\ UNCHANGED <<function_len, context, pc>>
    /\ UNCHANGED matcher_vars
    /\ UNCHANGED evaluator_vars
    /\ UNCHANGED operation_vars

NextArity == NewPermutations

SpecArity == InitArity /\ [][NextArity]_vars

(***************************************************************************)
(* The matcher on single variables: the three blank kinds, named and not,  *)
(* and typed blanks, at top level and as the one argument of f.            *)
(***************************************************************************)
\* Blank[g]
TypedBlank == App("Blank", <<Sym("g")>>)

BlankPatterns ==
    {Blank, Pattern("x", Blank), TypedBlank, Pattern("x", TypedBlank),
     BlankSequence, Pattern("xs", BlankSequence),
     BlankNullSequence, Pattern("xs", BlankNullSequence)}

BlankGrounds ==
    {Sym("a"), Integer(3), App("g", <<Sym("a")>>), App("h", <<Sym("a")>>)}
        \cup {Sequence(GroundArguments(n)) : n \in 0..2}

InitBlank ==
    /\ \E p \in BlankPatterns, e \in BlankGrounds :
          \/ pattern = p /\ ground = e
          \/ pattern = App("f", <<p>>) /\ ground = App("f", <<e>>)
    /\ context = TestContext
    /\ matcher = Matcher_new(pattern, ground)
    /\ selections = <<>>
    /\ driven = NotDriven
    /\ pc = "idle"
    /\ calls = 0
    /\ returned = Return(FALSE, EmptyBindings)
    /\ none_at = 0
    /\ afa = AFAGeneratorNew(EmptyFunction)
    /\ EvaluatorIdle
    /\ NoOperations
    /\ NoConstruction

SpecBlank == InitBlank /\ [][Next]_vars

(***************************************************************************)
(* A session: user terms evaluated one after another in the global         *)
(* context, each by evaluate's passes of evaluate_step.                    *)
(***************************************************************************)
UserSymbols == {Sym("x"), Sym("y")}

UserIntegers == {Integer(0), Integer(3)}

F0 == App("f", <<Integer(0)>>)

\* f[n_] := g[n] and f[n_] := f[n]
UserPatternRules ==
    {App("SetDelayed", <<App("f", <<Pattern("n", Blank)>>), App(h, <<Sym("n")>>)>>) :
        h \in {"f", "g"}}

\* x = 3, f[0] := y, ...: a left-hand side given another term as its value.
UserRules ==
    {rule \in (UserSymbols \cup {F0}) \X ({Sym("y")} \cup UserIntegers) : rule[1] # rule[2]}

UserDefinitions ==
    {App(set, <<rule[1], rule[2]>>) : set \in {"Set", "SetDelayed"}, rule \in UserRules}

\* 3 = 0: a definition whose left-hand side has no name.
UnnamedDefinitions == {App("Set", <<Integer(3), Integer(0)>>)}

\* Plus = 3 and Plus[x] := 3: definitions for a symbol registered as ReadOnly.
ProtectedDefinitions ==
    {App("Set", <<Sym("Plus"), Integer(3)>>),
     App("SetDelayed", <<App("Plus", <<Sym("x")>>), Integer(3)>>)}

\* f[0] := 3 /; y
ConditionalDefinitions ==
    {App("SetDelayed", <<F0, App("Condition", <<Integer(3), Sym("y")>>)>>)}

\* Sums of the symbols a and b, which are never given a value, and of integers.
PlusTerms ==
    {App("Plus", elems) :
        elems \in {<<>>, <<Sym("x")>>, <<Sym("a"), Integer(0)>>,
                   <<Sym("a"), Sym("b")>>, <<Sym("b"), Sym("a")>>,
                   <<Sym("b"), Integer(0), Sym("a")>>,
                   <<Integer(1), Integer(2), Integer(3)>>,
                   <<Integer(1), Sym("a"), Integer(2)>>,
                   <<Integer(3), Sym("a"), Integer(-3)>>}}

\* Products of integers and of the symbols a and b, and differences of integers.
TimesTerms ==
    {App("Times", elems) :
        elems \in {<<>>, <<Integer(2), Integer(3)>>, <<Integer(0), Integer(3)>>,
                   <<Sym("a"), Integer(1)>>, <<Sym("a"), Sym("b")>>}}
    \cup {App("Subtract", <<Integer(3), n>>) : n \in {Integer(0), Integer(1)}}

\* SetDelayed[x][y]: a compound whose head is a compound named by a symbol
\* that holds HoldAll.
CompoundHeadTerms ==
    {Normal(App("SetDelayed", <<Sym("x")>>), <<Sym("y")>>)}

\* g[Sequence[a, b]]: a Sequence[...] among the arguments of a symbol that
\* holds nothing.
SequenceTerms ==
    {App("g", <<Sequence(GroundArguments(2))>>)}

UserTerms ==
    UserSymbols \cup UserIntegers \cup {F0, App("g", <<F0>>), App("g", <<Sym("x")>>)}
        \cup UserDefinitions \cup UserPatternRules
        \cup UnnamedDefinitions \cup ProtectedDefinitions \cup ConditionalDefinitions
        \cup PlusTerms \cup TimesTerms \cup CompoundHeadTerms \cup SequenceTerms

InitEval ==
    /\ pattern = EmptyFunction
    /\ ground = EmptyFunction
    /\ context = new_global_context
    /\ matcher = Matcher_new(pattern, ground)
    /\ selections = <<>>
    /\ driven = NotDriven
    /\ pc = "idle"
    /\ calls = 0
    /\ returned = Return(FALSE, EmptyBindings)
    /\ none_at = 0
    /\ afa = AFAGeneratorNew(EmptyFunction)
    /\ EvaluatorIdle
    /\ NoOperations
    /\ NoConstruction

\* evaluate is called on a term.
Evaluate(expr, is_again) ==
    /\ pc' = "evaluate"
    /\ term' = expr
    /\ input' = expr
    /\ passes' = 0
    /\ again' = is_again
    /\ UNCHANGED <<context, output, evaluations>>
    /\ UNCHANGED matcher_vars
    /\ UNCHANGED operation_vars
    /\ UNCHANGED construction_vars

\* The user has a term evaluated.
EvaluateBegin ==
    /\ pc = "idle"
    /\ evaluations < MaxEvaluations
    /\ \E expr \in UserTerms : Evaluate(expr, FALSE)

\* The user has the result just returned evaluated.
EvaluateAgain ==
    /\ pc = "idle"
    /\ evaluations > 0
    /\ ~again
    /\ Evaluate(output, TRUE)

\* A faulty variant: the next call of evaluate is made only when both the
\* expression and the state_version have changed.
Evaluated_both_needed(step) ==
    /\ context' = step.context
    /\ IF step.panic
       THEN pc' = "panic" /\ UNCHANGED <<term, output, passes, evaluations>>
       ELSE IF step.changed /\ step.context.state_version # context.state_version
            THEN /\ pc' = "evaluate"
                 /\ term' = step.expr
                 /\ passes' = passes + 1
                 /\ UNCHANGED <<output, evaluations>>
            ELSE /\ pc' = "idle"
                 /\ term' = step.expr
                 /\ output' = step.expr
                 /\ passes' = passes + 1
                 /\ evaluations' = IF again THEN evaluations ELSE evaluations + 1
    /\ UNCHANGED <<input, again>>
    /\ UNCHANGED matcher_vars
    /\ UNCHANGED operation_vars
    /\ UNCHANGED construction_vars

\* evaluate after its call of evaluate_step: a changed expression or a changed
\* state_version leads to the next call of evaluate, anything else returns.
Evaluated(step) ==
    /\ context' = step.context
    /\ IF step.panic
       THEN pc' = "panic" /\ UNCHANGED <<term, output, passes, evaluations>>
       ELSE IF step.changed \/ step.context.state_version # context.state_version
            THEN /\ pc' = "evaluate"
                 /\ term' = step.expr
                 /\ passes' = passes + 1
                 /\ UNCHANGED <<output, evaluations>>
            ELSE /\ pc' = "idle"
                 /\ term' = step.expr
                 /\ output' = step.expr
                 /\ passes' = passes + 1
                 /\ evaluations' = IF again THEN evaluations ELSE evaluations + 1
    /\ UNCHANGED <<input, again>>
    /\ UNCHANGED matcher_vars
    /\ UNCHANGED operation_vars
    /\ UNCHANGED construction_vars

EvaluatePass ==
    /\ pc = "evaluate"
    /\ passes < MaxPasses
    /\ Evaluated(evaluate_step(term, context))

NextEval == EvaluateBegin \/ EvaluateAgain \/ EvaluatePass

SpecEval == InitEval /\ [][NextEval]_vars

(***************************************************************************)
(* The old evaluator (src/old): eval and eval_one over the environment of  *)
(* Env::new with the user's symbols interned.  No symbol of that           *)
(* environment has a value, an upvalue or a downvalue; of its built-ins    *)
(* Plus is the one the terms below reach.                                  *)
(***************************************************************************)
\* The names of the symbols below in the order of str::cmp (byte order).
SymbolNames == <<"List", "Plus", "Sequence", "a", "b", "c", "g", "x", "y">>

NameRank(name) == CHOOSE k \in DOMAIN SymbolNames : SymbolNames[k] = name

\* Env::symbol_def on the environment of Env::new: the attributes and the
\* built-in of PLUS, LIST and SEQUENCE; an interned symbol is SymbolDef::new.
symbol_def(name) ==
    [attributes |->
         IF name = "Plus"
         THEN {"Protected", "Flat", "Orderless", "OneIdentity", "Listable", "NumericFunction"}
         ELSE IF name = "List" THEN {"Protected", "Locked"}
         ELSE IF name = "Sequence" THEN {"Protected"}
         ELSE {},
     has_value |-> FALSE,
     downvalues |-> <<>>,
     upvalues |-> <<>>,
     builtin |-> IF name = "Plus" THEN "Plus" ELSE ""]

\* Ord::cmp on integers.
cmp(lhs, rhs) == IF lhs < rhs THEN "Less" ELSE IF lhs > rhs THEN "Greater" ELSE "Equal"

RECURSIVE expr_order(_, _)
RECURSIVE first_unequal(_, _)
\* aa.iter().zip(ab.iter()).map(expr_order).find(|o| *o != Equal).unwrap_or(Equal)
first_unequal(aa, ab) ==
    IF Len(aa) = 0 \/ Len(ab) = 0 THEN "Equal"
    ELSE IF expr_order(Head(aa), Head(ab)) # "Equal" THEN expr_order(Head(aa), Head(ab))
    ELSE first_unequal(Tail(aa), Tail(ab))

expr_order(a, b) ==
    IF a.t = "Integer" /\ b.t = "Integer" THEN cmp(a.i, b.i)
    ELSE IF a.t = "Integer" THEN "Less"
    ELSE IF b.t = "Integer" THEN "Greater"
    ELSE IF a.t = "Symbol" /\ b.t = "Symbol" THEN cmp(NameRank(a.n), NameRank(b.n))
    ELSE IF a.t = "Symbol" THEN "Less"
    ELSE IF b.t = "Symbol" THEN "Greater"
    ELSE IF expr_order(head(a), head(b)) # "Equal" THEN expr_order(head(a), head(b))
    ELSE IF len(a) # len(b) THEN cmp(len(a), len(b))
    ELSE first_unequal(elements(a), elements(b))

\* Vec::sort_by(expr_order): a stable sort, here by insertion after the
\* elements that are not greater.
not_greater(sorted, x) == Cardinality({k \in DOMAIN sorted : expr_order(sorted[k], x) # "Greater"})

inserted(sorted, x, at) == SubSeq(sorted, 1, at) \o <<x>> \o SubSeq(sorted, at + 1, Len(sorted))

RECURSIVE sort_onto(_, _)
sort_onto(sorted, args) ==
    IF Len(args) = 0 THEN sorted
    ELSE sort_onto(inserted(sorted, Head(args), not_greater(sorted, Head(args))), Tail(args))

sort_by(args) == sort_onto(<<>>, args)

RECURSIVE splice_sequences(_)
splice_sequences(args) ==
    IF Len(args) = 0 THEN <<>>
    ELSE (IF is_normal_head(Head(args), "Sequence") THEN elements(Head(args)) ELSE <<Head(args)>>)
         \o splice_sequences(Tail(args))

\* flatten_args without the splicing: the arguments as they are.
flatten_args_kept(head_eval, args) == args

RECURSIVE flatten_args(_, _)
flatten_args(head_eval, args) ==
    IF Len(args) = 0 THEN <<>>
    ELSE (IF Head(args).t = "Normal" /\ head(Head(args)) = head_eval
          THEN flatten_args(head(Head(args)), elements(Head(args)))
          ELSE <<Head(args)>>)
         \o flatten_args(head_eval, Tail(args))

\* thread_listable: the arguments that are lists, and the threaded result.
is_list(arg) == is_normal_head(arg, "List")

lists(args) == SelectSeq(args, is_list)

threads(args) ==
    /\ Len(lists(args)) > 0
    /\ \A k \in DOMAIN lists(args) : len(lists(args)[k]) = len(lists(args)[1])

thread_listable(head_eval, args) ==
    App("List",
        [i \in 1..len(lists(args)[1]) |->
            Normal(head_eval,
                   [k \in DOMAIN args |->
                       IF is_list(args[k]) THEN elements(args[k])[i] ELSE args[k]])])

\* The built-in of PLUS: the integers are summed, the other terms kept.
is_term(arg) == arg.t # "Integer"

RECURSIVE int_sum(_)
int_sum(args) ==
    IF Len(args) = 0 THEN 0
    ELSE (IF Head(args).t = "Integer" THEN Head(args).i ELSE 0) + int_sum(Tail(args))

PLUS_builtin(args) ==
    IF Len(SelectSeq(args, is_term)) = 0 THEN Integer(int_sum(args))
    ELSE App("Plus", (IF int_sum(args) # 0 THEN <<Integer(int_sum(args))>> ELSE <<>>)
                     \o SelectSeq(args, is_term))

\* The attributes eval_one takes for an evaluated head.
head_attributes(head_eval) ==
    IF head_eval.t = "Symbol" THEN symbol_def(head_eval.n).attributes ELSE {}

hold(attributes, i) ==
    \/ "HoldAll" \in attributes
    \/ i = 0 /\ "HoldFirst" \in attributes
    \/ i > 0 /\ "HoldRest" \in attributes

\* eval_one from "Apply Flat" to "Orderless normalization".
ordered(head_eval, attributes, args_eval) ==
    IF "Orderless" \in attributes
    THEN sort_by(IF "Flat" \in attributes THEN flatten_args(head_eval, args_eval) ELSE args_eval)
    ELSE IF "Flat" \in attributes THEN flatten_args(head_eval, args_eval) ELSE args_eval

\* eval_one from "OneIdentity normalization" on: no rule of the environment
\* applies (try_upvalues and try_downvalues find none), then the built-in.
rewritten(head_eval, attributes, args_eval) ==
    IF "OneIdentity" \in attributes /\ Len(args_eval) = 1 THEN args_eval[1]
    ELSE IF head_eval.t = "Symbol" /\ symbol_def(head_eval.n).builtin = "Plus"
         THEN PLUS_builtin(args_eval)
         ELSE Normal(head_eval, args_eval)

\* eval_one from "Apply Listable" on.
normalised(head_eval, attributes, args_eval) ==
    IF "Listable" \in attributes /\ threads(args_eval)
    THEN thread_listable(head_eval, args_eval)
    ELSE rewritten(head_eval, attributes, ordered(head_eval, attributes, args_eval))

spliced_unless_held(attributes, args_eval) ==
    IF "SequenceHold" \in attributes THEN args_eval ELSE splice_sequences(args_eval)

RECURSIVE eval_one(_)
args_evaluated(attributes, args) ==
    [k \in DOMAIN args |-> IF hold(attributes, k - 1) THEN args[k] ELSE eval_one(args[k])]

eval_one(expr) ==
    IF expr.t = "Symbol" THEN expr
    ELSE IF expr.t = "Normal"
         THEN normalised(eval_one(head(expr)), head_attributes(eval_one(head(expr))),
                         spliced_unless_held(
                             head_attributes(eval_one(head(expr))),
                             args_evaluated(head_attributes(eval_one(head(expr))),
                                            elements(expr))))
         ELSE expr

\* The terms eval is called on: Plus and g over up to MaxOldArguments
\* arguments, and the terms of the tests of plus.rs.
OldArguments ==
    {Sym("a"), Sym("b"), Sym("x"), Integer(1), Integer(2),
     App("Plus", <<Sym("b"), Sym("c")>>), App("Plus", <<Integer(2), Integer(3)>>),
     App("g", <<Sym("b"), Sym("a")>>), App("List", <<Integer(1), Sym("y")>>),
     Sequence(<<Sym("c"), Sym("a")>>)}

OldTests ==
    {App("Plus", <<Sym("x"), Integer(2), Sym("y"), Integer(1)>>),
     App("Plus", <<Integer(1), App("Plus", <<Integer(2), App("Plus", <<Integer(3)>>)>>)>>)}

OldTerms ==
    OldTests \cup
    {App(h, args) : h \in {"Plus", "g"},
                    args \in UNION {[1..n -> OldArguments] : n \in 0..MaxOldArguments}}

\* Env::new(): nothing has been evaluated.
InitOld ==
    /\ pattern = EmptyFunction
    /\ ground = EmptyFunction
    /\ context = new_global_context
    /\ matcher = Matcher_new(pattern, ground)
    /\ selections = <<>>
    /\ driven = NotDriven
    /\ pc = "idle"
    /\ calls = 0
    /\ returned = Return(FALSE, EmptyBindings)
    /\ none_at = 0
    /\ afa = AFAGeneratorNew(EmptyFunction)
    /\ EvaluatorIdle
    /\ NoOperations
    /\ NoConstruction

\* eval is called on a term; its result is not there yet.
EvalBegin ==
    /\ pc \in {"idle", "returned"}
    /\ \E expr \in OldTerms :
           /\ pc' = "eval"
           /\ term' = expr
           /\ input' = expr
           /\ passes' = 0
    /\ output' = Sym("Null")
    /\ UNCHANGED <<context, evaluations, again>>
    /\ UNCHANGED matcher_vars
    /\ UNCHANGED operation_vars
    /\ UNCHANGED construction_vars

\* One turn of the loop of eval with `next` the result of eval_one.
Looped(next) ==
    /\ IF next = term
       THEN /\ pc' = "returned"
            /\ output' = term
            /\ UNCHANGED <<term, passes>>
       ELSE /\ passes < MaxOldPasses
            /\ term' = next
            /\ passes' = passes + 1
            /\ UNCHANGED <<pc, output>>
    /\ UNCHANGED <<context, input, evaluations, again>>
    /\ UNCHANGED matcher_vars
    /\ UNCHANGED operation_vars
    /\ UNCHANGED construction_vars

EvalLoop ==
    /\ pc = "eval"
    /\ Looped(eval_one(term))

NextOld == EvalBegin \/ EvalLoop

SpecOld == InitOld /\ [][NextOld]_vars

(***************************************************************************)
(* The Context operations called on a context of their own: set_attributes,*)
(* the four set_*_value functions and clear_symbol, on two symbols, with   *)
(* attribute sets that deny and that allow, and with rules that share a    *)
(* pattern, a condition or both.                                           *)
(***************************************************************************)
ContextSymbols == {"s", "t"}

AttributeSets ==
    {{}, {"HoldAll"}, {"ReadOnly"}, {"AttributesReadOnly"}, {"ReadOnly", "AttributesReadOnly"}}

\* s[n_]
PatternS == App("s", <<Pattern("n", Blank)>>)

\* s[n_] -> 1, s[n_] -> 2, s[n_] /; True -> 1, s[n_] /; True -> 2, s -> 1, and
\* two built-ins for s[n_].
ContextValues ==
    {Definitions(PatternS, condition, rhs) :
        condition \in {NoCondition, SomeCondition(Sym("True"))},
        rhs \in {Integer(1), Integer(2)}}
    \cup {Definitions(Sym("s"), NoCondition, Integer(1))}
    \cup {BuiltIn(PatternS, built) : built \in {"Head", "Plus"}}

InitContext ==
    /\ pattern = EmptyFunction
    /\ ground = EmptyFunction
    /\ context = Context_new
    /\ matcher = Matcher_new(pattern, ground)
    /\ selections = <<>>
    /\ driven = NotDriven
    /\ pc = "idle"
    /\ calls = 0
    /\ returned = Return(FALSE, EmptyBindings)
    /\ none_at = 0
    /\ afa = AFAGeneratorNew(EmptyFunction)
    /\ EvaluatorIdle
    /\ NoOperations
    /\ NoConstruction

\* The operation has returned r.
Operated(kind, symbol, value, attributes, r) ==
    /\ context' = r.context
    /\ operation' = Operation(kind, symbol, value, attributes, r.ok)
    /\ operations' = operations + 1
    /\ UNCHANGED pc
    /\ UNCHANGED matcher_vars
    /\ UNCHANGED evaluator_vars
    /\ UNCHANGED construction_vars

SetAttributes ==
    /\ operations < MaxOperations
    /\ \E symbol \in ContextSymbols, attributes \in AttributeSets :
          Operated("set_attributes", symbol, operation.value, attributes,
                   set_attributes(context, symbol, attributes))

SetOwnValue ==
    /\ operations < MaxOperations
    /\ \E symbol \in ContextSymbols, value \in ContextValues :
          Operated("set_own_value", symbol, value, {},
                   set_own_value(context, symbol, value))

SetUpValue ==
    /\ operations < MaxOperations
    /\ \E symbol \in ContextSymbols, value \in ContextValues :
          Operated("set_up_value", symbol, value, {},
                   set_up_value(context, symbol, value))

SetDownValue ==
    /\ operations < MaxOperations
    /\ \E symbol \in ContextSymbols, value \in ContextValues :
          Operated("set_down_value", symbol, value, {},
                   set_down_value(context, symbol, value))

SetSubValue ==
    /\ operations < MaxOperations
    /\ \E symbol \in ContextSymbols, value \in ContextValues :
          Operated("set_sub_value", symbol, value, {},
                   set_sub_value(context, symbol, value))

ClearSymbol ==
    /\ operations < MaxOperations
    /\ \E symbol \in ContextSymbols :
          Operated("clear_symbol", symbol, operation.value, {},
                   clear_symbol(context, symbol))

NextContext ==
    SetAttributes \/ SetOwnValue \/ SetUpValue \/ SetDownValue \/ SetSubValue \/ ClearSymbol

SpecContext == InitContext /\ [][NextContext]_vars

(***************************************************************************)
(* The Fibonacci program: its three definitions evaluated in order in the  *)
(* global context, then terms f[k].                                        *)
(***************************************************************************)
\* f[Plus[n, d]]
FibonacciCall(d) == App("f", <<App("Plus", <<Sym("n"), Integer(d)>>)>>)

\* f[0] := 0; f[1] := 1; f[n_] := Plus[f[Plus[n, -1]], f[Plus[n, -2]]]
FibonacciProgram ==
    <<App("SetDelayed", <<App("f", <<Integer(0)>>), Integer(0)>>),
      App("SetDelayed", <<App("f", <<Integer(1)>>), Integer(1)>>),
      App("SetDelayed", <<App("f", <<Pattern("n", Blank)>>),
                          App("Plus", <<FibonacciCall(-1), FibonacciCall(-2)>>)>>)>>

\* The next definition of the program is evaluated.
ProgramDefine ==
    /\ pc = "idle"
    /\ evaluations < Len(FibonacciProgram)
    /\ Evaluate(FibonacciProgram[evaluations + 1], FALSE)

\* With the program defined, f[k] is evaluated.
ProgramQuery ==
    /\ pc = "idle"
    /\ evaluations >= Len(FibonacciProgram)
    /\ evaluations < Len(FibonacciProgram) + MaxQueries
    /\ \E k \in 0..MaxArgument : Evaluate(App("f", <<Integer(k)>>), FALSE)

ProgramPass ==
    /\ pc = "evaluate"
    /\ passes < MaxProgramPasses
    /\ Evaluated(evaluate_step(term, context))

NextProgram == ProgramDefine \/ ProgramQuery \/ ProgramPass

SpecProgram == InitEval /\ [][NextProgram]_vars

(***************************************************************************)
(* Properties of the matcher.                                              *)
(***************************************************************************)
AtomA == Sym("a")

AtomB == Sym("b")

AtomC == Sym("c")

\* The calls so far are the first enumeration: none returned None before the
\* latest one.
InFirstRun == none_at = 0 \/ calls = none_at

\* What call k returns when the solutions are exactly `expected`, in order.
ExpectedReturn(expected, k) ==
    IF k <= Len(expected) THEN Return(TRUE, expected[k]) ELSE Return(FALSE, EmptyBindings)

\* The returns of the first enumeration are `expected` in order, then None.
Enumerates(expected) ==
    (calls > 0 /\ InFirstRun) => returned = ExpectedReturn(expected, calls)

\* The first enumeration has ended after exactly k solutions.
EndedAfter(k) == pc = "idle" /\ calls = k + 1 /\ none_at = k + 1

IsPatternVariable(expr) ==
    /\ is_normal_head(expr, "Pattern")
    /\ len(expr) = 2
    /\ try_symbol(element(expr, 0))

\* The pattern with each bound pattern variable replaced by its value.
RECURSIVE Substituted(_, _)
Substituted(expr, bindings) ==
    IF ~try_normal(expr) THEN expr
    ELSE IF IsPatternVariable(expr) /\ element(expr, 0).n \in DOMAIN bindings
    THEN bindings[element(expr, 0).n]
    ELSE Normal(Substituted(head(expr), bindings),
                [k \in 1..len(expr) |-> Substituted(element(expr, k - 1), bindings)])

\* The elements with every element whose head is one of inline_heads replaced
\* by its own elements.
RECURSIVE Spliced(_, _)
Spliced(elems, inline_heads) ==
    IF Len(elems) = 0 THEN <<>>
    ELSE IF try_normal(Head(elems)) /\ try_symbol(head(Head(elems)))
            /\ head(Head(elems)).n \in inline_heads
    THEN Spliced(elements(Head(elems)), inline_heads) \o Spliced(Tail(elems), inline_heads)
    ELSE <<Head(elems)>> \o Spliced(Tail(elems), inline_heads)

InlineHeads(h, ctx) ==
    IF try_symbol(h) /\ "Associative" \in get_attributes(ctx, h.n)
    THEN {"Sequence", h.n}
    ELSE {"Sequence"}

\* Sequence values spliced in place and applications of an Associative head
\* flattened into the enclosing application of that head.
RECURSIVE Regrouped(_, _)
Regrouped(expr, ctx) ==
    IF ~try_normal(expr) THEN expr
    ELSE Normal(head(expr),
                Spliced([k \in 1..len(expr) |-> Regrouped(element(expr, k - 1), ctx)],
                        InlineHeads(head(expr), ctx)))

Reorderings(n) == {s \in [1..n -> 1..n] : \A i, j \in 1..n : i # j => s[i] # s[j]}

\* Equal up to the order of the arguments of Commutative heads.
RECURSIVE SameUpToOrder(_, _, _)
SameUpToOrder(p, g, ctx) ==
    IF ~try_normal(p) \/ ~try_normal(g) THEN p = g
    ELSE /\ head(p) = head(g)
         /\ len(p) = len(g)
         /\ IF try_symbol(head(g)) /\ "Commutative" \in get_attributes(ctx, head(g).n)
            THEN \E s \in Reorderings(len(g)) :
                     \A k \in 1..len(g) :
                         SameUpToOrder(element(p, k - 1), element(g, s[k] - 1), ctx)
            ELSE \A k \in 1..len(g) :
                     SameUpToOrder(element(p, k - 1), element(g, k - 1), ctx)

IsRealMatch(pat, subject, bindings, ctx) ==
    SameUpToOrder(Regrouped(Substituted(pat, bindings), ctx), Regrouped(subject, ctx), ctx)

\* C1: every bindings map Matcher::next emits is a real match: the pattern
\* with each named variable replaced by its bound value (Sequence values
\* spliced in place) is the subject up to the regrouping and reordering the
\* Associative/Commutative attributes of the heads allow; variable names that
\* occur several times included.
C1_EmittedBindingsMatch ==
    returned.some => IsRealMatch(pattern, ground, returned.bindings, context)

\* C2: once Matcher::next has returned None, every later call on the same
\* Matcher returns None.
C2_NoneIsFinal == none_at > 0 => ~returned.some
\* ---- What the solutions should be, written out from the statements.
IsNamedBlank(e) == IsPatternVariable(e) /\ element(e, 1) = Blank

IsSequenceVariable(e) ==
    IsPatternVariable(e) /\ element(e, 1) \in {BlankSequence, BlankNullSequence}

NameOf(e) == element(e, 0).n

DistinctNames(body) ==
    \A i, j \in 1..Len(body) :
        (i # j /\ IsPatternVariable(body[i]) /\ IsPatternVariable(body[j]))
            => NameOf(body[i]) # NameOf(body[j])

Bound(bindings, name, value) ==
    [x \in DOMAIN bindings \cup {name} |-> IF x = name THEN value ELSE bindings[x]]

RECURSIVE Flat(_)
Flat(seqs) == IF Len(seqs) = 0 THEN <<>> ELSE Head(seqs) \o Flat(Tail(seqs))

Without(args, i) == SubSeq(args, 1, i - 1) \o SubSeq(args, i + 1, Len(args))

\* Every ordering of the arguments, lexicographic by the position taken first.
RECURSIVE Orderings(_)
Orderings(args) ==
    IF Len(args) = 0 THEN << <<>> >>
    ELSE Flat([i \in 1..Len(args) |->
                  LET rest == Orderings(Without(args, i))
                  IN  [j \in 1..Len(rest) |-> <<args[i]>> \o rest[j]]])

\* The k-element subsets of the positions 1..n in the order of the subset
\* generator: increasing value of the bit mask.
RECURSIVE SubsetsOfSize(_, _)
SubsetsOfSize(n, k) ==
    IF k = 0 THEN << {} >>
    ELSE IF k > n THEN <<>>
    ELSE LET with_n == SubsetsOfSize(n - 1, k - 1)
         IN  SubsetsOfSize(n - 1, k) \o [j \in 1..Len(with_n) |-> with_n[j] \cup {n}]

\* The non-empty subsets of the positions 1..n, smaller subsets first.
SubsetsInOrder(n) == Flat([k \in 1..n |-> SubsetsOfSize(n, k)])

\* The arguments at the positions in S, in their order.
RECURSIVE Picked(_, _, _)
Picked(args, S, i) ==
    IF i > Len(args) THEN <<>>
    ELSE (IF i \in S THEN <<args[i]>> ELSE <<>>) \o Picked(args, S, i + 1)

\* The alternatives of a sequence variable against the arguments of a
\* Commutative head: the empty sequence first if allowed, then every non-empty
\* subset in every ordering; the unchosen arguments are the rest.
SequenceAlternatives(allows_empty, args) ==
    (IF allows_empty THEN << [value |-> <<>>, rest |-> args] >> ELSE <<>>)
    \o Flat([s \in 1..Len(SubsetsInOrder(Len(args))) |->
               LET S == SubsetsInOrder(Len(args))[s]
                   orderings == Orderings(Picked(args, S, 1))
               IN  [o \in 1..Len(orderings) |->
                       [value |-> orderings[o],
                        rest |-> Picked(args, (1..Len(args)) \ S, 1)]]])

\* The solutions of body against args under a Commutative head, in order: the
\* pattern elements take their arguments from left to right, an individual
\* element one argument by increasing position, a sequence variable its
\* alternatives in order.
RECURSIVE CommutativeSolutions(_, _)
CommutativeSolutions(body, args) ==
    IF Len(body) = 0 THEN (IF Len(args) = 0 THEN << EmptyBindings >> ELSE <<>>)
    ELSE IF IsSequenceVariable(Head(body))
    THEN LET alts == SequenceAlternatives(element(Head(body), 1) = BlankNullSequence, args)
         IN  Flat([k \in 1..Len(alts) |->
                      LET rest == CommutativeSolutions(Tail(body), alts[k].rest)
                      IN  [j \in 1..Len(rest) |->
                              Bound(rest[j], NameOf(Head(body)), Sequence(alts[k].value))]])
    ELSE Flat([i \in 1..Len(args) |->
                  IF IsNamedBlank(Head(body))
                  THEN LET rest == CommutativeSolutions(Tail(body), Without(args, i))
                       IN  [j \in 1..Len(rest) |->
                               Bound(rest[j], NameOf(Head(body)), args[i])]
                  ELSE IF Head(body) = args[i]
                  THEN CommutativeSolutions(Tail(body), Without(args, i))
                  ELSE <<>>])

XsYs(h, blank) == App(h, <<Pattern("xs", blank), Pattern("ys", blank)>>)

OnTestGround(h) == ground = App(h, <<AtomA, AtomB, AtomC>>)

\* ---- C3
C3_Fixture ==
    (pattern = App("fc", <<Pattern("x", Blank), Pattern("y", Blank), AtomC>>)
        /\ OnTestGround("fc"))
    => Enumerates(<<[x |-> AtomA, y |-> AtomB], [x |-> AtomB, y |-> AtomA]>>)

C3_Applies ==
    /\ head(pattern) = Sym("fc")
    /\ len(pattern) = len(ground)
    /\ \A k \in 1..len(pattern) :
           try_symbol(element(pattern, k - 1)) \/ IsNamedBlank(element(pattern, k - 1))
    /\ DistinctNames(elements(pattern))

C3_General ==
    C3_Applies => Enumerates(CommutativeSolutions(elements(pattern), elements(ground)))

\* C3: with fc Commutative, fc[x_, y_, c] against fc[a, b, c] gives exactly
\* {x->a, y->b}, then {x->b, y->a}, then None; and a pattern of (distinctly)
\* named individual blanks and constants against a ground of the same arity
\* gives exactly the one-to-one pairings in which every constant meets an equal
\* argument, each once, ordered by the ground position taken by the pattern
\* elements from left to right, then None.
C3_CommutativePairings == C3_Fixture /\ C3_General

\* C3 witness: the fixture has given its two solutions and then None.
C3_Witness ==
    /\ pattern = App("fc", <<Pattern("x", Blank), Pattern("y", Blank), AtomC>>)
    /\ OnTestGround("fc")
    /\ EndedAfter(2)

\* ---- C4
\* tests::associative::multiple_blank_sequences, matcher.rs 688-719.
AssociativeFixture20 ==
    <<
      [xs |-> Sequence(<<AtomA>>), ys |-> Sequence(<<AtomB, AtomC>>)],
      [xs |-> Sequence(<<AtomA>>), ys |-> Sequence(<<App("fa", <<AtomB>>), AtomC>>)],
      [xs |-> Sequence(<<AtomA>>), ys |-> Sequence(<<AtomB, App("fa", <<AtomC>>)>>)],
      [xs |-> Sequence(<<AtomA>>), ys |-> Sequence(<<App("fa", <<AtomB>>), App("fa", <<AtomC>>)>>)],
      [xs |-> Sequence(<<AtomA>>), ys |-> Sequence(<<App("fa", <<AtomB, AtomC>>)>>)],
      [xs |-> Sequence(<<App("fa", <<AtomA>>)>>), ys |-> Sequence(<<AtomB, AtomC>>)],
      [xs |-> Sequence(<<App("fa", <<AtomA>>)>>), ys |-> Sequence(<<App("fa", <<AtomB>>), AtomC>>)],
      [xs |-> Sequence(<<App("fa", <<AtomA>>)>>), ys |-> Sequence(<<AtomB, App("fa", <<AtomC>>)>>)],
      [xs |-> Sequence(<<App("fa", <<AtomA>>)>>), ys |-> Sequence(<<App("fa", <<AtomB>>), App("fa", <<AtomC>>)>>)],
      [xs |-> Sequence(<<App("fa", <<AtomA>>)>>), ys |-> Sequence(<<App("fa", <<AtomB, AtomC>>)>>)],
      [xs |-> Sequence(<<AtomA, AtomB>>), ys |-> Sequence(<<AtomC>>)],
      [xs |-> Sequence(<<AtomA, AtomB>>), ys |-> Sequence(<<App("fa", <<AtomC>>)>>)],
      [xs |-> Sequence(<<App("fa", <<AtomA>>), AtomB>>), ys |-> Sequence(<<AtomC>>)],
      [xs |-> Sequence(<<App("fa", <<AtomA>>), AtomB>>), ys |-> Sequence(<<App("fa", <<AtomC>>)>>)],
      [xs |-> Sequence(<<AtomA, App("fa", <<AtomB>>)>>), ys |-> Sequence(<<AtomC>>)],
      [xs |-> Sequence(<<AtomA, App("fa", <<AtomB>>)>>), ys |-> Sequence(<<App("fa", <<AtomC>>)>>)],
      [xs |-> Sequence(<<App("fa", <<AtomA>>), App("fa", <<AtomB>>)>>), ys |-> Sequence(<<AtomC>>)],
      [xs |-> Sequence(<<App("fa", <<AtomA>>), App("fa", <<AtomB>>)>>), ys |-> Sequence(<<App("fa", <<AtomC>>)>>)],
      [xs |-> Sequence(<<App("fa", <<AtomA, AtomB>>)>>), ys |-> Sequence(<<AtomC>>)],
      [xs |-> Sequence(<<App("fa", <<AtomA, AtomB>>)>>), ys |-> Sequence(<<App("fa", <<AtomC>>)>>)] >>

\* tests::associative::multiple_blank_null_sequences, matcher.rs 720-774.
AssociativeFixture46 ==
    <<
      [xs |-> Sequence(<<>>), ys |-> Sequence(<<AtomA, AtomB, AtomC>>)],
      [xs |-> Sequence(<<>>), ys |-> Sequence(<<App("fa", <<AtomA>>), AtomB, AtomC>>)],
      [xs |-> Sequence(<<>>), ys |-> Sequence(<<AtomA, App("fa", <<AtomB>>), AtomC>>)],
      [xs |-> Sequence(<<>>), ys |-> Sequence(<<AtomA, AtomB, App("fa", <<AtomC>>)>>)],
      [xs |-> Sequence(<<>>), ys |-> Sequence(<<App("fa", <<AtomA>>), App("fa", <<AtomB>>), AtomC>>)],
      [xs |-> Sequence(<<>>), ys |-> Sequence(<<App("fa", <<AtomA>>), AtomB, App("fa", <<AtomC>>)>>)],
      [xs |-> Sequence(<<>>), ys |-> Sequence(<<AtomA, App("fa", <<AtomB>>), App("fa", <<AtomC>>)>>)],
      [xs |-> Sequence(<<>>), ys |-> Sequence(<<App("fa", <<AtomA>>), App("fa", <<AtomB>>), App("fa", <<AtomC>>)>>)],
      [xs |-> Sequence(<<>>), ys |-> Sequence(<<App("fa", <<AtomA, AtomB>>), AtomC>>)],
      [xs |-> Sequence(<<>>), ys |-> Sequence(<<App("fa", <<AtomA, AtomB>>), App("fa", <<AtomC>>)>>)],
      [xs |-> Sequence(<<>>), ys |-> Sequence(<<AtomA, App("fa", <<AtomB, AtomC>>)>>)],
      [xs |-> Sequence(<<>>), ys |-> Sequence(<<App("fa", <<AtomA>>), App("fa", <<AtomB, AtomC>>)>>)],
      [xs |-> Sequence(<<>>), ys |-> Sequence(<<App("fa", <<AtomA, AtomB, AtomC>>)>>)],
      [xs |-> Sequence(<<AtomA>>), ys |-> Sequence(<<AtomB, AtomC>>)],
      [xs |-> Sequence(<<AtomA>>), ys |-> Sequence(<<App("fa", <<AtomB>>), AtomC>>)],
      [xs |-> Sequence(<<AtomA>>), ys |-> Sequence(<<AtomB, App("fa", <<AtomC>>)>>)],
      [xs |-> Sequence(<<AtomA>>), ys |-> Sequence(<<App("fa", <<AtomB>>), App("fa", <<AtomC>>)>>)],
      [xs |-> Sequence(<<AtomA>>), ys |-> Sequence(<<App("fa", <<AtomB, AtomC>>)>>)],
      [xs |-> Sequence(<<App("fa", <<AtomA>>)>>), ys |-> Sequence(<<AtomB, AtomC>>)],
      [xs |-> Sequence(<<App("fa", <<AtomA>>)>>), ys |-> Sequence(<<App("fa", <<AtomB>>), AtomC>>)],
      [xs |-> Sequence(<<App("fa", <<AtomA>>)>>), ys |-> Sequence(<<AtomB, App("fa", <<AtomC>>)>>)],
      [xs |-> Sequence(<<App("fa", <<AtomA>>)>>), ys |-> Sequence(<<App("fa", <<AtomB>>), App("fa", <<AtomC>>)>>)],
      [xs |-> Sequence(<<App("fa", <<AtomA>>)>>), ys |-> Sequence(<<App("fa", <<AtomB, AtomC>>)>>)],
      [xs |-> Sequence(<<AtomA, AtomB>>), ys |-> Sequence(<<AtomC>>)],
      [xs |-> Sequence(<<AtomA, AtomB>>), ys |-> Sequence(<<App("fa", <<AtomC>>)>>)],
      [xs |-> Sequence(<<App("fa", <<AtomA>>), AtomB>>), ys |-> Sequence(<<AtomC>>)],
      [xs |-> Sequence(<<App("fa", <<AtomA>>), AtomB>>), ys |-> Sequence(<<App("fa", <<AtomC>>)>>)],
      [xs |-> Sequence(<<AtomA, App("fa", <<AtomB>>)>>), ys |-> Sequence(<<AtomC>>)],
      [xs |-> Sequence(<<AtomA, App("fa", <<AtomB>>)>>), ys |-> Sequence(<<App("fa", <<AtomC>>)>>)],
      [xs |-> Sequence(<<App("fa", <<AtomA>>), App("fa", <<AtomB>>)>>), ys |-> Sequence(<<AtomC>>)],
      [xs |-> Sequence(<<App("fa", <<AtomA>>), App("fa", <<AtomB>>)>>), ys |-> Sequence(<<App("fa", <<AtomC>>)>>)],
      [xs |-> Sequence(<<App("fa", <<AtomA, AtomB>>)>>), ys |-> Sequence(<<AtomC>>)],
      [xs |-> Sequence(<<App("fa", <<AtomA, AtomB>>)>>), ys |-> Sequence(<<App("fa", <<AtomC>>)>>)],
      [xs |-> Sequence(<<AtomA, AtomB, AtomC>>), ys |-> Sequence(<<>>)],
      [xs |-> Sequence(<<App("fa", <<AtomA>>), AtomB, AtomC>>), ys |-> Sequence(<<>>)],
      [xs |-> Sequence(<<AtomA, App("fa", <<AtomB>>), AtomC>>), ys |-> Sequence(<<>>)],
      [xs |-> Sequence(<<AtomA, AtomB, App("fa", <<AtomC>>)>>), ys |-> Sequence(<<>>)],
      [xs |-> Sequence(<<App("fa", <<AtomA>>), App("fa", <<AtomB>>), AtomC>>), ys |-> Sequence(<<>>)],
      [xs |-> Sequence(<<App("fa", <<AtomA>>), AtomB, App("fa", <<AtomC>>)>>), ys |-> Sequence(<<>>)],
      [xs |-> Sequence(<<AtomA, App("fa", <<AtomB>>), App("fa", <<AtomC>>)>>), ys |-> Sequence(<<>>)],
      [xs |-> Sequence(<<App("fa", <<AtomA>>), App("fa", <<AtomB>>), App("fa", <<AtomC>>)>>), ys |-> Sequence(<<>>)],
      [xs |-> Sequence(<<App("fa", <<AtomA, AtomB>>), AtomC>>), ys |-> Sequence(<<>>)],
      [xs |-> Sequence(<<App("fa", <<AtomA, AtomB>>), App("fa", <<AtomC>>)>>), ys |-> Sequence(<<>>)],
      [xs |-> Sequence(<<AtomA, App("fa", <<AtomB, AtomC>>)>>), ys |-> Sequence(<<>>)],
      [xs |-> Sequence(<<App("fa", <<AtomA>>), App("fa", <<AtomB, AtomC>>)>>), ys |-> Sequence(<<>>)],
      [xs |-> Sequence(<<App("fa", <<AtomA, AtomB, AtomC>>)>>), ys |-> Sequence(<<>>)] >>

\* C4: with fa Associative, fa[xs__, ys__] against fa[a, b, c] emits exactly
\* the 20 bindings of the test fixture in its order and then None, and
\* fa[xs___, ys___] exactly the fixture's 46 and then None.
C4_AssociativeFixtures ==
    /\ (pattern = XsYs("fa", BlankSequence) /\ OnTestGround("fa"))
           => Enumerates(AssociativeFixture20)
    /\ (pattern = XsYs("fa", BlankNullSequence) /\ OnTestGround("fa"))
           => Enumerates(AssociativeFixture46)

\* C4 witness: the 46 solutions of fa[xs___, ys___] have been given, then None.
C4_Witness ==
    /\ pattern = XsYs("fa", BlankNullSequence)
    /\ OnTestGround("fa")
    /\ EndedAfter(46)

\* ---- C5
\* tests::associative_commutative::multiple_blank_sequences, matcher.rs 784-834.
AssociativeCommutativeFixture40 ==
    <<
      [xs |-> Sequence(<<AtomA>>), ys |-> Sequence(<<AtomB, AtomC>>)],
      [xs |-> Sequence(<<AtomA>>), ys |-> Sequence(<<App("fac", <<AtomB>>), AtomC>>)],
      [xs |-> Sequence(<<AtomA>>), ys |-> Sequence(<<AtomB, App("fac", <<AtomC>>)>>)],
      [xs |-> Sequence(<<AtomA>>), ys |-> Sequence(<<App("fac", <<AtomB>>), App("fac", <<AtomC>>)>>)],
      [xs |-> Sequence(<<AtomA>>), ys |-> Sequence(<<App("fac", <<AtomB, AtomC>>)>>)],
      [xs |-> Sequence(<<AtomA>>), ys |-> Sequence(<<AtomC, AtomB>>)],
      [xs |-> Sequence(<<AtomA>>), ys |-> Sequence(<<App("fac", <<AtomC>>), AtomB>>)],
      [xs |-> Sequence(<<AtomA>>), ys |-> Sequence(<<AtomC, App("fac", <<AtomB>>)>>)],
      [xs |-> Sequence(<<AtomA>>), ys |-> Sequence(<<App("fac", <<AtomC>>), App("fac", <<AtomB>>)>>)],
      [xs |-> Sequence(<<AtomA>>), ys |-> Sequence(<<App("fac", <<AtomC, AtomB>>)>>)],
      [xs |-> Sequence(<<App("fac", <<AtomA>>)>>), ys |-> Sequence(<<AtomB, AtomC>>)],
      [xs |-> Sequence(<<App("fac", <<AtomA>>)>>), ys |-> Sequence(<<App("fac", <<AtomB>>), AtomC>>)],
      [xs |-> Sequence(<<App("fac", <<AtomA>>)>>), ys |-> Sequence(<<AtomB, App("fac", <<AtomC>>)>>)],
      [xs |-> Sequence(<<App("fac", <<AtomA>>)>>), ys |-> Sequence(<<App("fac", <<AtomB>>), App("fac", <<AtomC>>)>>)],
      [xs |-> Sequence(<<App("fac", <<AtomA>>)>>), ys |-> Sequence(<<App("fac", <<AtomB, AtomC>>)>>)],
      [xs |-> Sequence(<<App("fac", <<AtomA>>)>>), ys |-> Sequence(<<AtomC, AtomB>>)],
      [xs |-> Sequence(<<App("fac", <<AtomA>>)>>), ys |-> Sequence(<<App("fac", <<AtomC>>), AtomB>>)],
      [xs |-> Sequence(<<App("fac", <<AtomA>>)>>), ys |-> Sequence(<<AtomC, App("fac", <<AtomB>>)>>)],
      [xs |-> Sequence(<<App("fac", <<AtomA>>)>>), ys |-> Sequence(<<App("fac", <<AtomC>>), App("fac", <<AtomB>>)>>)],
      [xs |-> Sequence(<<App("fac", <<AtomA>>)>>), ys |-> Sequence(<<App("fac", <<AtomC, AtomB>>)>>)],
      [xs |-> Sequence(<<AtomA, AtomB>>), ys |-> Sequence(<<AtomC>>)],
      [xs |-> Sequence(<<AtomA, AtomB>>), ys |-> Sequence(<<App("fac", <<AtomC>>)>>)],
      [xs |-> Sequence(<<App("fac", <<AtomA>>), AtomB>>), ys |-> Sequence(<<AtomC>>)],
      [xs |-> Sequence(<<App("fac", <<AtomA>>), AtomB>>), ys |-> Sequence(<<App("fac", <<AtomC>>)>>)],
      [xs |-> Sequence(<<AtomA, App("fac", <<AtomB>>)>>), ys |-> Sequence(<<AtomC>>)],
      [xs |-> Sequence(<<AtomA, App("fac", <<AtomB>>)>>), ys |-> Sequence(<<App("fac", <<AtomC>>)>>)],
      [xs |-> Sequence(<<App("fac", <<AtomA>>), App("fac", <<AtomB>>)>>), ys |-> Sequence(<<AtomC>>)],
      [xs |-> Sequence(<<App("fac", <<AtomA>>), App("fac", <<AtomB>>)>>), ys |-> Sequence(<<App("fac", <<AtomC>>)>>)],
      [xs |-> Sequence(<<App("fac", <<AtomA, AtomB>>)>>), ys |-> Sequence(<<AtomC>>)],
      [xs |-> Sequence(<<App("fac", <<AtomA, AtomB>>)>>), ys |-> Sequence(<<App("fac", <<AtomC>>)>>)],
      [xs |-> Sequence(<<AtomB, AtomA>>), ys |-> Sequence(<<AtomC>>)],
      [xs |-> Sequence(<<AtomB, AtomA>>), ys |-> Sequence(<<App("fac", <<AtomC>>)>>)],
      [xs |-> Sequence(<<App("fac", <<AtomB>>), AtomA>>), ys |-> Sequence(<<AtomC>>)],
      [xs |-> Sequence(<<App("fac", <<AtomB>>), AtomA>>), ys |-> Sequence(<<App("fac", <<AtomC>>)>>)],
      [xs |-> Sequence(<<AtomB, App("fac", <<AtomA>>)>>), ys |-> Sequence(<<AtomC>>)],
      [xs |-> Sequence(<<AtomB, App("fac", <<AtomA>>)>>), ys |-> Sequence(<<App("fac", <<AtomC>>)>>)],
      [xs |-> Sequence(<<App("fac", <<AtomB>>), App("fac", <<AtomA>>)>>), ys |-> Sequence(<<AtomC>>)],
      [xs |-> Sequence(<<App("fac", <<AtomB>>), App("fac", <<AtomA>>)>>), ys |-> Sequence(<<App("fac", <<AtomC>>)>>)],
      [xs |-> Sequence(<<App("fac", <<AtomB, AtomA>>)>>), ys |-> Sequence(<<AtomC>>)],
      [xs |-> Sequence(<<App("fac", <<AtomB, AtomA>>)>>), ys |-> Sequence(<<App("fac", <<AtomC>>)>>)] >>

Wrapped(x) == App("fac", <<x>>)

\* The AFAC groupings of one argument, and of two.
GroupingsOfOne(x) == << <<x>>, <<Wrapped(x)>> >>

OrderedGroupingsOfTwo(x, y) ==
    << <<x, y>>, <<Wrapped(x), y>>, <<x, Wrapped(y)>>, <<Wrapped(x), Wrapped(y)>>,
       <<App("fac", <<x, y>>)>> >>

GroupingsOfTwo(x, y) == OrderedGroupingsOfTwo(x, y) \o OrderedGroupingsOfTwo(y, x)

\* Every value of xs with every value of ys, xs the slower.
Crossed(left, right) ==
    [k \in 1..(Len(left) * Len(right)) |->
        [xs |-> Sequence(left[((k - 1) \div Len(right)) + 1]),
         ys |-> Sequence(right[((k - 1) % Len(right)) + 1])]]

AssociativeCommutativeAll120 ==
    Crossed(GroupingsOfOne(AtomA), GroupingsOfTwo(AtomB, AtomC))
    \o Crossed(GroupingsOfOne(AtomB), GroupingsOfTwo(AtomA, AtomC))
    \o Crossed(GroupingsOfOne(AtomC), GroupingsOfTwo(AtomA, AtomB))
    \o Crossed(GroupingsOfTwo(AtomA, AtomB), GroupingsOfOne(AtomC))
    \o Crossed(GroupingsOfTwo(AtomA, AtomC), GroupingsOfOne(AtomB))
    \o Crossed(GroupingsOfTwo(AtomB, AtomC), GroupingsOfOne(AtomA))

C5_Applies == pattern = XsYs("fac", BlankSequence) /\ OnTestGround("fac")

FreeSplits(args, from, to) ==
    [k \in 1..(IF to >= from THEN to - from + 1 ELSE 0) |->
        [xs |-> Sequence(SubSeq(args, 1, from + k - 1)),
         ys |-> Sequence(SubSeq(args, from + k, Len(args)))]]

\* C6: under the free head f, f[xs___, ys___] against f[e1, ..., en] emits
\* exactly n+1 bindings, xs the prefix of length 0, 1, ..., n in that order and
\* ys the remaining suffix; f[xs__, ys__] leaves out the empty prefix and the
\* empty suffix, the n-1 splits in the same order; each then None.  For
\* f[a, b, c] these are 4 and 2 solutions.
C6_FreeSplits ==
    /\ (pattern = XsYs("f", BlankNullSequence) /\ head(ground) = Sym("f"))
           => /\ Enumerates(FreeSplits(elements(ground), 0, len(ground)))
              /\ (OnTestGround("f") /\ none_at > 0) => none_at = 5
    /\ (pattern = XsYs("f", BlankSequence) /\ head(ground) = Sym("f"))
           => /\ Enumerates(FreeSplits(elements(ground), 1, len(ground) - 1))
              /\ (OnTestGround("f") /\ none_at > 0) => none_at = 3

\* C6 witness: f[xs___, ys___] against f[a, b, c] has given 4 solutions, then None.
C6_Witness ==
    /\ pattern = XsYs("f", BlankNullSequence)
    /\ OnTestGround("f")
    /\ EndedAfter(4)

\* ---- C7
\* tests::commutative::multiple_blank_sequences, matcher.rs 622-642.
CommutativeFixture12 ==
    <<
      [xs |-> Sequence(<<AtomA>>), ys |-> Sequence(<<AtomB, AtomC>>)],
      [xs |-> Sequence(<<AtomA>>), ys |-> Sequence(<<AtomC, AtomB>>)],
      [xs |-> Sequence(<<AtomB>>), ys |-> Sequence(<<AtomA, AtomC>>)],
      [xs |-> Sequence(<<AtomB>>), ys |-> Sequence(<<AtomC, AtomA>>)],
      [xs |-> Sequence(<<AtomC>>), ys |-> Sequence(<<AtomA, AtomB>>)],
      [xs |-> Sequence(<<AtomC>>), ys |-> Sequence(<<AtomB, AtomA>>)],
      [xs |-> Sequence(<<AtomA, AtomB>>), ys |-> Sequence(<<AtomC>>)],
      [xs |-> Sequence(<<AtomB, AtomA>>), ys |-> Sequence(<<AtomC>>)],
      [xs |-> Sequence(<<AtomA, AtomC>>), ys |-> Sequence(<<AtomB>>)],
      [xs |-> Sequence(<<AtomC, AtomA>>), ys |-> Sequence(<<AtomB>>)],
      [xs |-> Sequence(<<AtomB, AtomC>>), ys |-> Sequence(<<AtomA>>)],
      [xs |-> Sequence(<<AtomC, AtomB>>), ys |-> Sequence(<<AtomA>>)] >>

\* tests::commutative::multiple_blank_null_sequences, matcher.rs 644-675.
CommutativeFixture24 ==
    <<
      [xs |-> Sequence(<<>>), ys |-> Sequence(<<AtomA, AtomB, AtomC>>)],
      [xs |-> Sequence(<<>>), ys |-> Sequence(<<AtomA, AtomC, AtomB>>)],
      [xs |-> Sequence(<<>>), ys |-> Sequence(<<AtomB, AtomA, AtomC>>)],
      [xs |-> Sequence(<<>>), ys |-> Sequence(<<AtomB, AtomC, AtomA>>)],
      [xs |-> Sequence(<<>>), ys |-> Sequence(<<AtomC, AtomA, AtomB>>)],
      [xs |-> Sequence(<<>>), ys |-> Sequence(<<AtomC, AtomB, AtomA>>)],
      [xs |-> Sequence(<<AtomA>>), ys |-> Sequence(<<AtomB, AtomC>>)],
      [xs |-> Sequence(<<AtomA>>), ys |-> Sequence(<<AtomC, AtomB>>)],
      [xs |-> Sequence(<<AtomB>>), ys |-> Sequence(<<AtomA, AtomC>>)],
      [xs |-> Sequence(<<AtomB>>), ys |-> Sequence(<<AtomC, AtomA>>)],
      [xs |-> Sequence(<<AtomC>>), ys |-> Sequence(<<AtomA, AtomB>>)],
      [xs |-> Sequence(<<AtomC>>), ys |-> Sequence(<<AtomB, AtomA>>)],
      [xs |-> Sequence(<<AtomA, AtomB>>), ys |-> Sequence(<<AtomC>>)],
      [xs |-> Sequence(<<AtomB, AtomA>>), ys |-> Sequence(<<AtomC>>)],
      [xs |-> Sequence(<<AtomA, AtomC>>), ys |-> Sequence(<<AtomB>>)],
      [xs |-> Sequence(<<AtomC, AtomA>>), ys |-> Sequence(<<AtomB>>)],
      [xs |-> Sequence(<<AtomB, AtomC>>), ys |-> Sequence(<<AtomA>>)],
      [xs |-> Sequence(<<AtomC, AtomB>>), ys |-> Sequence(<<AtomA>>)],
      [xs |-> Sequence(<<AtomA, AtomB, AtomC>>), ys |-> Sequence(<<>>)],
      [xs |-> Sequence(<<AtomA, AtomC, AtomB>>), ys |-> Sequence(<<>>)],
      [xs |-> Sequence(<<AtomB, AtomA, AtomC>>), ys |-> Sequence(<<>>)],
      [xs |-> Sequence(<<AtomB, AtomC, AtomA>>), ys |-> Sequence(<<>>)],
      [xs |-> Sequence(<<AtomC, AtomA, AtomB>>), ys |-> Sequence(<<>>)],
      [xs |-> Sequence(<<AtomC, AtomB, AtomA>>), ys |-> Sequence(<<>>)] >>

C7_Applies ==
    /\ head(pattern) = Sym("fc")
    /\ \A k \in 1..len(pattern) :
           \/ try_symbol(element(pattern, k - 1))
           \/ IsNamedBlank(element(pattern, k - 1))
           \/ IsSequenceVariable(element(pattern, k - 1))
    /\ \E k \in 1..len(pattern) : IsSequenceVariable(element(pattern, k - 1))
    /\ DistinctNames(elements(pattern))

\* C7: under the Commutative head fc a sequence variable is bound, on
\* successive alternatives, to the empty sequence first (only a null-sequence
\* variable), then to every non-empty subset of the ground's arguments in
\* subset-generator order, each in every ordering, the unchosen arguments left
\* for the rest of the pattern; fc[xs__, ys__] against fc[a, b, c] gives
\* exactly the test's 12 bindings in order and fc[xs___, ys___] its 24, each
\* then None.
C7_CommutativeSequences ==
    /\ C7_Applies => Enumerates(CommutativeSolutions(elements(pattern), elements(ground)))
    /\ (pattern = XsYs("fc", BlankSequence) /\ OnTestGround("fc"))
           => Enumerates(CommutativeFixture12)
    /\ (pattern = XsYs("fc", BlankNullSequence) /\ OnTestGround("fc"))
           => Enumerates(CommutativeFixture24)

\* C7 witness: the 24 solutions of fc[xs___, ys___] have been given, then None.
C7_Witness ==
    /\ pattern = XsYs("fc", BlankNullSequence)
    /\ OnTestGround("fc")
    /\ EndedAfter(24)
\* ---- C8
\* The last position of the group that starts at position i: the first position
\* from i on that is not joined to its successor.
GroupEnd(joined, i, n) ==
    CHOOSE e \in i..n : (e = n \/ e \notin joined) /\ \A k \in i..(e - 1) : k \in joined

\* args cut into contiguous groups; position k is joined to k+1 iff k is in joined.
RECURSIVE GroupsOf(_, _, _)
GroupsOf(args, joined, i) ==
    IF i > Len(args) THEN <<>>
    ELSE <<SubSeq(args, i, GroupEnd(joined, i, Len(args)))>>
         \o GroupsOf(args, joined, GroupEnd(joined, i, Len(args)) + 1)

SinglesOf(groups) == Cardinality({k \in 1..Len(groups) : Len(groups[k]) = 1})

\* The groups as arguments: a group of several is wrapped in h, the k-th
\* single-element group is wrapped iff k is in wrapped.
RECURSIVE WrappedGroups(_, _, _, _)
WrappedGroups(h, groups, wrapped, singles_seen) ==
    IF Len(groups) = 0 THEN <<>>
    ELSE IF Len(Head(groups)) > 1
    THEN <<Normal(h, Head(groups))>> \o WrappedGroups(h, Tail(groups), wrapped, singles_seen)
    ELSE <<IF singles_seen + 1 \in wrapped THEN Normal(h, Head(groups))
           ELSE Head(groups)[1]>>
         \o WrappedGroups(h, Tail(groups), wrapped, singles_seen + 1)

\* The empty subset, then the non-empty ones in subset-generator order.
AllSubsetsInOrder(n) == << {} >> \o SubsetsInOrder(n)

\* Every cut crossed with every choice of wrapped singles, cuts the slower.
AFAApplications(h, args) ==
    IF Len(args) = 0 THEN <<>>
    ELSE Flat([c \in 1..Len(AllSubsetsInOrder(Len(args) - 1)) |->
                 LET groups == GroupsOf(args, AllSubsetsInOrder(Len(args) - 1)[c], 1)
                     wraps  == AllSubsetsInOrder(SinglesOf(groups))
                 IN  [w \in 1..Len(wraps) |-> WrappedGroups(h, groups, wraps[w], 0)]])

F1(x) == App("f", <<x>>)

\* tests::generates_all_afa_applications, afa_generator.rs 104-125.
AFAFixture13 ==
    << <<AtomA, AtomB, AtomC>>,
       <<F1(AtomA), AtomB, AtomC>>,
       <<AtomA, F1(AtomB), AtomC>>,
       <<AtomA, AtomB, F1(AtomC)>>,
       <<F1(AtomA), F1(AtomB), AtomC>>,
       <<F1(AtomA), AtomB, F1(AtomC)>>,
       <<AtomA, F1(AtomB), F1(AtomC)>>,
       <<F1(AtomA), F1(AtomB), F1(AtomC)>>,
       <<App("f", <<AtomA, AtomB>>), AtomC>>,
       <<App("f", <<AtomA, AtomB>>), F1(AtomC)>>,
       <<AtomA, App("f", <<AtomB, AtomC>>)>>,
       <<F1(AtomA), App("f", <<AtomB, AtomC>>)>>,
       <<App("f", <<AtomA, AtomB, AtomC>>)>> >>

AFAExpectedReturn(expected, k) ==
    IF k <= Len(expected) THEN AFAReturn(TRUE, expected[k]) ELSE AFAReturn(FALSE, <<>>)

AFAEnumerates(expected) ==
    (calls > 0 /\ InFirstRun) => returned = AFAExpectedReturn(expected, calls)

\* C8: an AFAGenerator over n arguments under a head emits every cut of the
\* argument list into contiguous groups crossed with every choice of the
\* single-element groups that are wrapped in the head (groups of several always
\* are), each once, the cuts in subset-generator order and for each the wraps
\* in subset-generator order, then None; for f[a, b, c] exactly the 13 results
\* of the test in order, and for no arguments nothing.
C8_AFAApplications ==
    /\ AFAEnumerates(AFAApplications(head(ground), elements(ground)))
    /\ OnTestGround("f") => AFAEnumerates(AFAFixture13)
    /\ (len(ground) = 0 /\ calls > 0) => ~returned.some

\* C8 witness: the generator over f[a, b, c] has given 13 results, then None.
C8_Witness == OnTestGround("f") /\ afa.exhausted /\ calls = 14 /\ none_at = 14

(***************************************************************************)
(* Properties of the evaluator.                                            *)
(***************************************************************************)
\* A call of evaluate has returned and no other is running.
EvaluateReturned == pc = "idle" /\ (evaluations > 0 \/ again)

\* The rule's pattern matches the expression: the matcher has a solution.
PatternMatches(value, expr, ctx) ==
    Matcher_next(Matcher_new(value.pattern, expr), ctx).some

\* Some OwnValue or DownValue rule of the context matches the expression.
RuleMatches(expr, ctx) ==
    \E symbol \in DOMAIN ctx.definitions :
        \/ \E i \in DOMAIN ctx.definitions[symbol].own_values :
              PatternMatches(ctx.definitions[symbol].own_values[i], expr, ctx)
        \/ \E i \in DOMAIN ctx.definitions[symbol].down_values :
              PatternMatches(ctx.definitions[symbol].down_values[i], expr, ctx)

\* The attributes under which the elements of a compound stand.
AttributesOver(expr, ctx) ==
    IF head(expr).t = "Symbol" THEN get_attributes(ctx, head(expr).n) ELSE {}

\* The expression, its head and every sub-term in a position no Hold
\* attribute protects.
RECURSIVE UnheldSubterms(_, _)
UnheldSubterms(expr, ctx) ==
    IF expr.t # "Normal" THEN {expr}
    ELSE {expr} \cup UnheldSubterms(head(expr), ctx)
            \cup UNION {UnheldSubterms(element(expr, i), ctx) :
                           i \in {j \in 0..(len(expr) - 1) : ~Held(AttributesOver(expr, ctx), j)}}

IsNormalForm(expr, ctx) == \A sub \in UnheldSubterms(expr, ctx) : ~RuleMatches(sub, ctx)

\* C9: a term evaluate returns is a normal form for the final context: no
\* OwnValue or DownValue rule of the context matches it or any of its
\* sub-terms outside held positions.
C9_ReturnsNormalForm == EvaluateReturned => IsNormalForm(output, context)

\* C10: evaluation is idempotent: a result evaluated again in the context
\* its evaluation left is returned as it is.
C10_Idempotent == (EvaluateReturned /\ again) => output = input

\* evaluate has aborted: an unwrap of None or of Err, or a todo!(), was reached.
Aborted == pc = "panic"

\* C11: evaluate never aborts: whatever terms the user has had evaluated, a
\* definition whose left-hand side has no name (3 = 0) and the use of a stored
\* rule that carries a condition included, evaluate returns a result.
C11_NeverPanics == ~Aborted

\* Set[lhs, rhs] or SetDelayed[lhs, rhs]
IsDefinition(expr) ==
    /\ is_normal_head(expr, "Set") \/ is_normal_head(expr, "SetDelayed")
    /\ len(expr) = 2

\* A definition whose left-hand side names a symbol that holds ReadOnly.
TargetProtected(expr, ctx) ==
    /\ IsDefinition(expr)
    /\ Expr_name(element(expr, 0)).some
    /\ "ReadOnly" \in get_attributes(ctx, Expr_name(element(expr, 0)).symbol)

\* C12: evaluating Set or SetDelayed whose target symbol holds ReadOnly does not
\* abort, adds no rule and changes no attribute, and gives $Failed or the term
\* it was given.
C12_ProtectedTargetDenied ==
    [][(pc = "evaluate" /\ TargetProtected(term, context))
           => /\ pc' # "panic"
              /\ context' = context
              /\ term' \in {Sym("$Failed"), term}]_vars

\* The rule list an operation of the set_*_value family stores to.
ListOf(kind) ==
    CASE kind = "set_own_value" -> "own_values"
      [] kind = "set_up_value" -> "up_values"
      [] kind = "set_down_value" -> "down_values"
      [] kind = "set_sub_value" -> "sub_values"

IsSetValue(o) ==
    o.kind \in {"set_own_value", "set_up_value", "set_down_value", "set_sub_value"}

\* The rules a context holds for a symbol in one of its four lists.
RulesOf(ctx, symbol, list) ==
    IF symbol \in DOMAIN ctx.definitions THEN ctx.definitions[symbol][list] ELSE <<>>

\* Equal pattern and equal condition.
SameRule(v1, v2) == v1.pattern = v2.pattern /\ v1.condition = v2.condition

\* The list with the rule of that pattern and condition replaced where it
\* stands, or with the rule at the end when there is none.
ReplacedOrAppended(rules, value) ==
    IF \E i \in DOMAIN rules : SameRule(rules[i], value)
    THEN [i \in DOMAIN rules |-> IF SameRule(rules[i], value) THEN value ELSE rules[i]]
    ELSE Append(rules, value)

\* C13: a rule stored to a list that holds a rule of equal pattern and equal
\* condition replaces that rule in place - same length, same order, the new
\* replacement - and any other rule is appended at the end.
C13_ReplacedInPlace ==
    [][(operations' = operations + 1 /\ IsSetValue(operation') /\ operation'.ok)
           => RulesOf(context', operation'.symbol, ListOf(operation'.kind))
                  = ReplacedOrAppended(
                        RulesOf(context, operation'.symbol, ListOf(operation'.kind)),
                        operation'.value)]_vars

\* The operation is one the context denies: a store or a clear for a symbol
\* holding ReadOnly, new attributes for a symbol holding AttributesReadOnly.
Denied(o, ctx) ==
    \/ /\ IsSetValue(o) \/ o.kind = "clear_symbol"
       /\ "ReadOnly" \in get_attributes(ctx, o.symbol)
    \/ /\ o.kind = "set_attributes"
       /\ "AttributesReadOnly" \in get_attributes(ctx, o.symbol)

\* C14: a denied Context operation returns an error and leaves the attributes
\* of every symbol, every rule list and state_version as they were.
C14_DeniedWithoutEffect ==
    [][(operations' = operations + 1 /\ Denied(operation', context))
           => (~operation'.ok /\ context' = context)]_vars

\* A store was denied for a symbol that has rules and holds ReadOnly.
C14_Witness ==
    /\ operations > 0
    /\ IsSetValue(operation)
    /\ ~operation.ok
    /\ Denied(operation, context)
    /\ operation.symbol \in DOMAIN context.definitions

RuleLists == {"own_values", "up_values", "down_values", "sub_values"}

\* Some symbol has other attributes or another rule list in ctx2 than in ctx1.
AttributesDiffer(ctx1, ctx2) ==
    \E symbol \in DOMAIN ctx1.attributes \cup DOMAIN ctx2.attributes :
        get_attributes(ctx1, symbol) # get_attributes(ctx2, symbol)

RulesDiffer(ctx1, ctx2) ==
    \E symbol \in DOMAIN ctx1.definitions \cup DOMAIN ctx2.definitions, list \in RuleLists :
        RulesOf(ctx1, symbol, list) # RulesOf(ctx2, symbol, list)

\* C15: state_version never decreases, and an operation that changes a rule
\* list or the attributes of a symbol strictly increases it.
C15_VersionIncreases ==
    [][/\ context'.state_version >= context.state_version
       /\ (AttributesDiffer(context, context') \/ RulesDiffer(context, context'))
              => context'.state_version > context.state_version]_vars

\* C16: the attributes of a symbol that holds AttributesReadOnly are never
\* changed again, whichever Context operation is called.
C16_AttributesFrozen ==
    [][\A symbol \in DOMAIN context.attributes :
           "AttributesReadOnly" \in get_attributes(context, symbol)
               => get_attributes(context', symbol) = get_attributes(context, symbol)]_vars

\* The rule list the evaluator looks the expression up in: the OwnValues of a
\* symbol, the DownValues of the symbol a compound is named by.
LookedUp(expr, ctx) ==
    IF expr.t = "Symbol" THEN RulesOf(ctx, expr.n, "own_values")
    ELSE IF expr.t = "Normal" /\ Expr_name(expr).some
         THEN RulesOf(ctx, Expr_name(expr).symbol, "down_values")
         ELSE <<>>

\* The positions of the rules of that list whose pattern matches.
Matching(expr, ctx) ==
    {i \in DOMAIN LookedUp(expr, ctx) : PatternMatches(LookedUp(expr, ctx)[i], expr, ctx)}

\* The matching rule that was added first.
FirstAdded(expr, ctx) ==
    LookedUp(expr, ctx)[CHOOSE i \in Matching(expr, ctx) : \A j \in Matching(expr, ctx) : i <= j]

\* The first solution of the matcher for a rule and the expression.
FirstSolution(value, expr, ctx) ==
    Matcher_next(Matcher_new(value.pattern, expr), ctx).bindings

\* No rule matches the head or an element of the compound: the pass goes on
\* to the rules of the expression itself.
PartsSettled(expr, ctx) ==
    \A sub \in UnheldSubterms(expr, ctx) \ {expr} : ~RuleMatches(sub, ctx)

\* A pass over a term that several user rules match.
SeveralMatch(expr, ctx) ==
    /\ PartsSettled(expr, ctx)
    /\ Cardinality(Matching(expr, ctx)) >= 2
    /\ \A i \in Matching(expr, ctx) : LookedUp(expr, ctx)[i].kind = "Definitions"

\* C17: when several rules of the list match the term, the pass applies the
\* one that was added first, with the matcher's first solution for it.
C17_FirstAddedApplied ==
    [][(pc = "evaluate" /\ SeveralMatch(term, context))
           => /\ pc' # "panic"
              /\ term' = replace_all(FirstSolution(FirstAdded(term, context), term, context),
                                     FirstAdded(term, context).ground).expr]_vars

\* The list a rule for lhs belongs to holds the rule lhs -> rhs.
Stored(ctx, lhs, rhs) ==
    \E i \in DOMAIN LookedUp(lhs, ctx) :
        /\ LookedUp(lhs, ctx)[i].kind = "Definitions"
        /\ LookedUp(lhs, ctx)[i].pattern = lhs
        /\ LookedUp(lhs, ctx)[i].ground = rhs

\* evaluate has returned from a user term that is a definition.
DefinitionReturned == EvaluateReturned /\ ~again /\ IsDefinition(input)

\* C18: evaluate of Set[lhs, rhs] registers lhs -> the evaluated rhs, as an
\* OwnValue of a symbol lhs and as a DownValue of the head symbol otherwise,
\* and returns that rhs; evaluate of SetDelayed[lhs, rhs] registers lhs -> rhs
\* with rhs as written and returns Null.
C18_SetRegistersAndReturns ==
    DefinitionReturned =>
        IF is_normal_head(input, "Set")
        THEN /\ Stored(context, element(input, 0), output)
             /\ element(input, 1).t = "Integer" => output = element(input, 1)
        ELSE /\ Stored(context, element(input, 0), extract_condition(element(input, 1)).ground)
             /\ output = Sym("Null")

\* evaluate has returned from a user term that is a sum.
PlusReturned == EvaluateReturned /\ ~again /\ is_normal_head(input, "Plus")

\* What evaluate gives for the term in the context.
Evaluation(expr, ctx) == evaluate(expr, ctx, MaxPasses - 1).expr

\* Plus[Plus[e1, e2], e3, ...] for Plus[e1, e2, e3, ...]
Nested(expr) ==
    App("Plus", <<App("Plus", SubSeq(elements(expr), 1, 2))>> \o SliceFrom(elements(expr), 2))

\* C19: the value of a sum does not depend on the order of its arguments nor
\* on their nesting: every reordering of the arguments and the nesting of the
\* first two evaluate to the same term, and Plus[b, 0, a] to Plus[a, b].
C19_PlusOrderless ==
    PlusReturned =>
        /\ \A k \in DOMAIN Orderings(elements(input)) :
               Evaluation(App("Plus", Orderings(elements(input))[k]), context) = output
        /\ len(input) >= 2 => Evaluation(Nested(input), context) = output
        /\ input = App("Plus", <<Sym("b"), Integer(0), Sym("a")>>)
               => output = App("Plus", <<Sym("a"), Sym("b")>>)

\* The sum of the integers among the expressions.
RECURSIVE Total(_)
Total(exprs) ==
    IF Len(exprs) = 0 THEN 0
    ELSE (IF exprs[1].t = "Integer" THEN exprs[1].i ELSE 0) + Total(Tail(exprs))

Symbolic(exprs) == SelectSeq(exprs, LAMBDA e : e.t # "Integer")

Integers(exprs) == SelectSeq(exprs, LAMBDA e : e.t = "Integer")

\* The terms of a result: the arguments of a sum, or the one bare term.
Summands(expr) == IF is_normal_head(expr, "Plus") THEN elements(expr) ELSE <<expr>>

\* evaluate has returned from a sum whose arguments are integers and terms
\* that have no value in the context.
PlusOfSettledReturned ==
    /\ PlusReturned
    /\ \A i \in 0..(len(input) - 1) : IsNormalForm(element(input, i), context)

\* C20: Plus folds its integer arguments into one sum - Plus[1, 2, 3] gives 6,
\* Plus[] gives 0 - and among symbolic arguments the integers become at most
\* one integer term, which is left out when the sum is 0; a single remaining
\* term is returned bare (Plus[a, 0] gives a, Plus[x] gives x).
C20_PlusFoldsIntegers ==
    PlusOfSettledReturned =>
        IF Symbolic(elements(input)) = <<>>
        THEN output = Integer(Total(elements(input)))
        ELSE /\ \E k \in DOMAIN Orderings(Symbolic(elements(input))) :
                    Symbolic(Summands(output)) = Orderings(Symbolic(elements(input)))[k]
             /\ Integers(Summands(output))
                    = IF Total(elements(input)) = 0 THEN <<>>
                      ELSE <<Integer(Total(elements(input)))>>
             /\ is_normal_head(output, "Plus") <=> Len(Summands(output)) >= 2

\* Plus[3, a, -3] has given a: integers folded, their zero sum left out and the
\* one remaining term returned bare.
C20_Witness ==
    /\ PlusOfSettledReturned
    /\ input = App("Plus", <<Integer(3), Sym("a"), Integer(-3)>>)
    /\ output = Sym("a")

\* The product of the integers among the expressions.
RECURSIVE Multiplied(_)
Multiplied(exprs) ==
    IF Len(exprs) = 0 THEN 1
    ELSE (IF exprs[1].t = "Integer" THEN exprs[1].i ELSE 1) * Multiplied(Tail(exprs))

\* evaluate has returned from a user term with that head.
Returned(head_name) == EvaluateReturned /\ ~again /\ is_normal_head(input, head_name)

\* C21: Times folds its integer arguments into one product with identity 1 -
\* a product of integers, zero included, is their product and Times[] is 1 -,
\* a factor 1 is dropped (Times[a, 1] gives a), a product of symbols without a
\* numeric factor is left as it is, and Subtract[m, n] gives m - n for
\* integers m and n.
C21_TimesFoldsIntegers ==
    /\ Returned("Times") =>
           IF Symbolic(elements(input)) = <<>>
           THEN output = Integer(Multiplied(elements(input)))
           ELSE Multiplied(elements(input)) = 1 =>
                    output = IF Len(Symbolic(elements(input))) = 1
                             THEN Symbolic(elements(input))[1]
                             ELSE App("Times", Symbolic(elements(input)))
    /\ (Returned("Subtract") /\ Symbolic(elements(input)) = <<>>) =>
           output = Integer(element(input, 0).i - element(input, 1).i)

\* The k-th Fibonacci number.
RECURSIVE Fibonacci(_)
Fibonacci(k) == IF k < 2 THEN k ELSE Fibonacci(k - 1) + Fibonacci(k - 2)

\* The program is defined and the term in hand is f[k].
Queried(k) == evaluations >= Len(FibonacciProgram) /\ input = App("f", <<Integer(k)>>)

\* C22: with f[0] := 0, f[1] := 1 and f[n_] := Plus[f[Plus[n, -1]],
\* f[Plus[n, -2]]] evaluated in this order in the global context, evaluate of
\* f[k] terminates - it needs no more than 3 k + 2 passes - and returns the
\* k-th Fibonacci number; f[5] gives 5.
C22_Fibonacci ==
    /\ pc # "panic"
    /\ \A k \in 0..(MaxArgument + 1) :
           /\ (Queried(k) /\ pc = "evaluate") => passes < 3 * k + 2
           /\ (Queried(k) /\ pc = "idle") => output = Integer(Fibonacci(k))

\* evaluate has returned 5 for f[5].
C22_Witness ==
    /\ Queried(5)
    /\ pc = "idle"
    /\ output = Integer(5)

\* The name of a term as the symbol table is keyed: the symbol itself, the head
\* of a compound whose head is a symbol, and none for every other term.
KeyName(expr) ==
    IF expr.t = "Symbol" THEN [some |-> TRUE, symbol |-> expr.n]
    ELSE IF expr.t = "Normal" /\ head(expr).t = "Symbol"
         THEN [some |-> TRUE, symbol |-> head(expr).n]
         ELSE [some |-> FALSE, symbol |-> ""]

HasCompoundHead(expr) == expr.t = "Normal" /\ head(expr).t = "Normal"

\* The symbol has an OwnValue in the context.
HasOwnValue(expr, ctx) == expr.t = "Symbol" /\ RulesOf(ctx, expr.n, "own_values") # <<>>

\* C23: the name of a term is the symbol itself, the head symbol of a compound
\* whose head is a symbol, and absent otherwise - for an atom that is no symbol
\* and for a compound whose head is a compound; so the arguments of f[x][y]
\* are not held by the attributes of f: one that has a value is rewritten.
C23_NameOfTerm ==
    /\ Expr_name(term) = KeyName(term)
    /\ (EvaluateReturned /\ ~again /\ HasCompoundHead(input) /\ HasCompoundHead(output))
           => \A i \in 0..(len(input) - 1) :
                  HasOwnValue(element(input, i), context)
                      => element(output, i) # element(input, i)

\* Blank[h] or Pattern[x, Blank[h]]
IsTypedBlank(p) ==
    \/ try_blank(p) /\ len(p) = 1
    \/ try_blank_pattern(p) /\ len(element(p, 1)) = 1

\* The h of a typed blank.
BlankHead(p) == IF try_blank(p) THEN element(p, 0) ELSE element(element(p, 1), 0)

\* A typed blank stands against a term whose head is not the blank's.
HeadDiffers(p, e) == IsTypedBlank(p) /\ Expr_head(e) # BlankHead(p)

\* C24: a typed blank Blank[h], named or not, matches a single ground term
\* only if the head of that term is h: the matcher emits no solution when the
\* heads differ, at top level and for an argument inside a compound pattern.
C24_TypedBlankChecksHead ==
    /\ HeadDiffers(pattern, ground) => ~returned.some
    /\ (is_normal_head(pattern, "f") /\ len(pattern) = 1 /\ len(ground) = 1
          /\ HeadDiffers(element(pattern, 0), element(ground, 0))) => ~returned.some

\* The blank kinds without a head constraint, named or not.
IsUntypedBlank(p) ==
    p \in {Blank, Pattern("x", Blank), BlankSequence, Pattern("xs", BlankSequence),
           BlankNullSequence, Pattern("xs", BlankNullSequence)}

IsSequenceBlank(p) == IsUntypedBlank(p) /\ p \notin {Blank, Pattern("x", Blank)}

\* Whether the blank, standing alone, matches the ground term.
BlankMatches(p, e) ==
    IF p \in {Blank, Pattern("x", Blank)} THEN TRUE
    ELSE IF p \in {BlankSequence, Pattern("xs", BlankSequence)}
    THEN is_normal_head(e, "Sequence") /\ len(e) >= 1
    ELSE is_normal_head(e, "Sequence")

\* The one solution: the name, if the blank has one, bound to the whole ground.
BlankBinding(p, e) ==
    IF is_normal_head(p, "Pattern") THEN InsertKey(EmptyBindings, element(p, 0).n, e)
    ELSE EmptyBindings

\* The cases the claim is about: a blank alone, a sequence blank against a
\* Sequence[...].
BlankAlone ==
    /\ IsUntypedBlank(pattern)
    /\ IsSequenceBlank(pattern) => is_normal_head(ground, "Sequence")

\* C25: at top level _ and x_ match any single ground term, a Sequence[...] of
\* any length included; __ and xs__ match a Sequence[...] exactly when it has
\* an element; ___ and xs___ match every Sequence[...]. Each match is one
\* solution, followed by None, and a named form binds the name to the whole
\* ground.
C25_BlankKinds ==
    BlankAlone =>
        /\ calls = 1 =>
               /\ returned.some = BlankMatches(pattern, ground)
               /\ returned.some => returned.bindings = BlankBinding(pattern, ground)
        /\ (calls = 2 /\ BlankMatches(pattern, ground)) => ~returned.some

\* xs__ against Sequence[a, b] has given its one solution and then None.
C25_Witness ==
    /\ pattern = Pattern("xs", BlankSequence)
    /\ ground = Sequence(GroundArguments(2))
    /\ calls = 2
    /\ none_at = 2
    /\ ~returned.some

\* fa[x_] is matched against fa[a, b], fa being Associative.
AssociativeIndividual ==
    /\ pattern = App("fa", <<Pattern("x", Blank)>>)
    /\ ground = App("fa", GroundArguments(2))

\* C26: under an Associative head an individual variable may take several
\* ground arguments wrapped in the head; the Matcher on fa[x_] against
\* fa[a, b] gives the solution x -> fa[a, b], the only one that leaves no
\* argument over.
C26_AssociativeIndividual ==
    (AssociativeIndividual /\ calls = 1) =>
        /\ returned.some
        /\ returned.bindings = InsertKey(EmptyBindings, "x", ground)

\* The argument list with every Sequence[s1, ..., sk] replaced by s1, ..., sk.
RECURSIVE SequencesSpliced(_)
SequencesSpliced(exprs) ==
    IF exprs = <<>> THEN <<>>
    ELSE (IF is_normal_head(exprs[1], "Sequence") THEN elements(exprs[1]) ELSE <<exprs[1]>>)
             \o SequencesSpliced(Tail(exprs))

HasSequenceArgument(expr) ==
    /\ expr.t = "Normal"
    /\ \E i \in 0..(len(expr) - 1) : is_normal_head(element(expr, i), "Sequence")

\* C27: unless the head holds HoldAllComplete or HoldSequence, evaluate
\* replaces every argument Sequence[s1, ..., sk] in place by s1, ..., sk; for
\* a symbol g without rules evaluate(g[Sequence[a, b]]) is g[a, b].
C27_SequenceSpliced ==
    (Returned("g") /\ HasSequenceArgument(input) /\ RulesOf(context, "g", "down_values") = <<>>)
        => output = App("g", SequencesSpliced(elements(input)))

\* C28: when a commutative or associative-commutative match needs the
\* permutations of more elements than the generator supports (more than 32),
\* building the generator does not panic, and a generator that is built
\* permutes as many elements as it was asked for, never a truncated count.
C28_UnsupportedArityExplicit ==
    constructed.done =>
        /\ ~constructed.panic
        /\ constructed.nb_elems = function_len

\* In 'step2 the generator on top of the match stack has no further result.
GeneratorExhausted ==
    /\ pc = "step2"
    /\ Len(matcher.match_stack) > 0
    /\ Last(matcher.match_stack).kind = "MatchGenerator"
    /\ ~MatchGenerator_next(Last(matcher.match_stack).gen).some

\* In 'step1 no rule applies to the equation on top of the equation stack.
NoRuleApplies ==
    /\ pc = "step1"
    /\ Len(matcher.equation_stack) > 0
    /\ ~select_rule(matcher, context).some

\* C29: when a generator is exhausted and removed, the equation stack and the
\* bindings are as they were immediately before the generator was selected;
\* and when select_rule finds no rule the matcher is as before the call.
C29_BacktrackRestores ==
    /\ GeneratorExhausted =>
           /\ backtrack(matcher).ok
           /\ Stacks(backtrack(matcher).matcher) = Last(selections)
    /\ NoRuleApplies => select_rule(matcher, context).matcher = matcher

\* The pass reported Unchanged and left the state_version as it was.
Settled(step, ctx) ==
    ~step.changed /\ step.context.state_version = ctx.state_version

\* What a pass of evaluate_step over the running term leads to: evaluate
\* returns exactly when the pass is settled, and goes on with the result of
\* the pass, in the context the pass left, otherwise.
PassFollowed(step) ==
    ~step.panic =>
        /\ pc' = "idle" <=> Settled(step, context)
        /\ pc' = "idle" => output' = step.expr
        /\ ~Settled(step, context) =>
               /\ pc' = "evaluate"
               /\ term' = step.expr
               /\ context' = step.context

\* C30: evaluate returns only after a pass that reported Unchanged and during
\* which the state_version did not change; a pass that reports Changed, or
\* during which the state_version changed, is followed by another pass over
\* the result of that pass.
C30_ReturnsWhenSettled ==
    [][pc = "evaluate" => PassFollowed(evaluate_step(term, context))]_vars

\* evaluate has returned after a pass that changed the term and the
\* state_version and the passes that followed it.
C30_Witness ==
    /\ EvaluateReturned
    /\ ~again
    /\ passes >= 2
    /\ output # input
    /\ context.state_version > 0
    /\ Settled(evaluate_step(output, context), context)

\* The template with every symbol that is bound replaced by its value.
RECURSIVE TemplateFilled(_, _)
TemplateFilled(bindings, expr) ==
    IF expr.t = "Symbol"
    THEN IF expr.n \in DOMAIN bindings THEN bindings[expr.n] ELSE expr
    ELSE IF expr.t = "Normal"
         THEN [expr EXCEPT !.e = [i \in DOMAIN expr.e |-> TemplateFilled(bindings, expr.e[i])]]
         ELSE expr

\* The rule evaluate_step finds for the expression itself: an OwnValue of a
\* symbol, a DownValue of the symbol a compound is named by.
RuleFound(expr, ctx) ==
    IF expr.t \in {"Symbol", "Normal"} /\ Expr_name(expr).some
    THEN find_matching_definition(expr, Expr_name(expr).symbol,
                                  IF expr.t = "Symbol" THEN "OwnValue" ELSE "DownValue", ctx)
    ELSE NoUnevaluatedRule

\* The rule found has a ground template as its replacement.
TemplateRuleFound(expr, ctx) ==
    /\ RuleFound(expr, ctx).some
    /\ RuleFound(expr, ctx).value.kind = "Definitions"

\* C31: applying a matched rule whose replacement is a ground template gives
\* a Changed result that carries the template with every bound symbol
\* replaced by its value, a template without bound symbols included.
C31_TemplateAppliedChanged ==
    (pc = "evaluate" /\ TemplateRuleFound(term, context)) =>
        /\ apply(RuleFound(term, context), term, context).changed
        /\ apply(RuleFound(term, context), term, context).expr =
               TemplateFilled(RuleFound(term, context).bindings,
                           RuleFound(term, context).value.ground)

(***************************************************************************)
(* Properties of the generators driven on their own.                       *)
(***************************************************************************)
\* The returns of the first enumeration are `expected` in order, then None.
DrivenEnumerates(expected) ==
    (calls > 0 /\ InFirstRun) => returned = AFAExpectedReturn(expected, calls)

\* Every AFA grouping of every ordering of the arguments, orderings the slower.
AFACApplications(h, args) ==
    LET orderings == Orderings(args)
    IN  Flat([o \in 1..Len(orderings) |-> AFAApplications(h, orderings[o])])

\* The sequence variable a pattern fac[p, ...] begins with: its blank, whether
\* it is named, and whether it takes the empty sequence.
FirstBlank(p) ==
    IF is_normal_head(element(p, 0), "Pattern") THEN element(element(p, 0), 1)
    ELSE element(p, 0)

FirstNamed(p) == is_normal_head(element(p, 0), "Pattern")

NullAllowed(p) == FirstBlank(p) = BlankNullSequence

\* What the rule gives for one value of the variable: the tail equation on
\* the arguments not chosen, and the binding if the variable is named.
SVEACResult(p, g, chosen, unchosen) ==
    <<ResultEquation(Normal(head(p), Tail(elements(p))), Normal(head(g), unchosen))>>
    \o (IF FirstNamed(p)
        THEN <<ResultSubstitution(element(element(p, 0), 0).n, Sequence(chosen))>>
        ELSE <<>>)

\* The results for the subset S of the positions: every AFAC result of the
\* arguments chosen.
SVEACResultsOf(p, g, S) ==
    LET applications == AFACApplications(head(g), Picked(elements(g), S, 1))
        unchosen     == Picked(elements(g), (1..len(g)) \ S, 1)
    IN  [k \in 1..Len(applications) |-> SVEACResult(p, g, applications[k], unchosen)]

SVEACResults(p, g) ==
    LET subsets == SubsetsInOrder(len(g))
    IN  (IF NullAllowed(p) THEN <<SVEACResult(p, g, <<>>, elements(g))>> ELSE <<>>)
        \o Flat([j \in 1..Len(subsets) |-> SVEACResultsOf(p, g, subsets[j])])

\* C32: under an Associative-Commutative head RuleSVEAC binds the sequence
\* variable to the empty sequence first (only if it may be empty), then goes
\* through every non-empty subset of the ground's arguments once, in
\* subset-generator order, giving for each every AFAC result of the subset
\* with the unchosen arguments as the ground of the tail equation, and after
\* the full set returns None.
C32_SVEACEnumeration ==
    driven.kind = "SVEAC" => DrivenEnumerates(SVEACResults(pattern, ground))

\* fac[xs___, y_] against fac[a, b, c]: the empty sequence, 6 results for the
\* one-element subsets, 30 for the two-element subsets, 78 for the full set,
\* then None.
C32_Witness ==
    /\ driven.kind = "SVEAC"
    /\ pattern = App("fac", <<Pattern("xs", BlankNullSequence), Pattern("y", Blank)>>)
    /\ OnTestGround("fac")
    /\ calls = 116
    /\ none_at = 116

\* No element of the sequence occurs twice.
NoDuplicates(seq) == \A i, j \in DOMAIN seq : seq[i] = seq[j] => i = j

\* The enumeration claimed for an AFACGenerator over the ground: n! times
\* |AFA(n)| results, all different.
AFACComplete(h, args) ==
    LET applications == AFACApplications(h, args)
    IN  /\ Len(applications) = Product(Len(args)) * Len(AFAApplications(h, args))
        /\ NoDuplicates(applications)
        /\ (Len(args) > 0 => applications[1] = args)

\* The 78 results of tests::generates_all_afa_applications: the 13 groupings
\* of the test of the AFA generator for abc, then those of acb, bac, bca, cab
\* and cba.
AFACFixture78(applications) ==
    /\ Len(applications) = 78
    /\ SubSeq(applications, 1, 13) = AFAFixture13
    /\ applications[14] = <<AtomA, AtomC, AtomB>>
    /\ applications[27] = <<AtomB, AtomA, AtomC>>
    /\ applications[40] = <<AtomB, AtomC, AtomA>>
    /\ applications[53] = <<AtomC, AtomA, AtomB>>
    /\ applications[66] = <<AtomC, AtomB, AtomA>>
    /\ applications[78] = <<App("f", <<AtomC, AtomB, AtomA>>)>>

\* C33: an AFACGenerator over n arguments gives, for each permutation of the
\* arguments in permutation-generator order starting with the identity, the
\* whole AFA enumeration of the permuted list, and then None: n! |AFA(n)|
\* results, none twice; for f[a, b, c] the 78 results of the test.
C33_AFACEnumeration ==
    driven.kind = "AFAC" =>
        /\ DrivenEnumerates(AFACApplications(head(ground), elements(ground)))
        /\ AFACComplete(head(ground), elements(ground))
        /\ OnTestGround("f") =>
               AFACFixture78(AFACApplications(head(ground), elements(ground)))

\* The generator over f[a, b, c] has given its 78 results and then None.
C33_Witness ==
    /\ driven.kind = "AFAC"
    /\ OnTestGround("f")
    /\ calls = 79
    /\ none_at = 79

\* The bit mask of a set of positions 1..n.
RECURSIVE MaskOf(_)
MaskOf(S) ==
    IF S = {} THEN 0
    ELSE LET k == CHOOSE x \in S : TRUE IN Pow2(k - 1) + MaskOf(S \ {k})

\* The masks of the non-empty subsets of n positions, by increasing number of
\* positions and, for one number, by increasing mask.
RECURSIVE Sorted(_)
Sorted(S) ==
    IF S = {} THEN <<>>
    ELSE LET least == CHOOSE x \in S : \A y \in S : x <= y
         IN  <<least>> \o Sorted(S \ {least})

MasksOfSize(n, k) == {MaskOf(S) : S \in {T \in SUBSET (1..n) : Cardinality(T) = k}}

MasksInOrder(n) == Flat([k \in 1..n |-> Sorted(MasksOfSize(n, k))])

\* Each element as the one-element tuple a call is recorded as.
Single(seq) == [k \in DOMAIN seq |-> <<seq[k]>>]

\* increments_in_order: the masks for n = 4 after the empty one.
SubsetFixture15 == <<1, 2, 4, 8, 3, 5, 6, 9, 10, 12, 7, 11, 13, 14, 15>>

\* C34: from Subset::empty(n), next visits each of the 2^n subsets once - the
\* empty one is the start -, by increasing number of chosen positions and,
\* within one number, by increasing mask, and returns None after the full
\* set; for n = 4 the masks are 0, 1, 2, 4, 8, 3, 5, 6, 9, 10, 12, 7, 11, 13,
\* 14, 15, then None; for n = 0 the first next returns None.
C34_SubsetsInOrder ==
    driven.kind = "Subset" =>
        /\ calls = 0 => driven.gen.value = 0
        /\ DrivenEnumerates(Single(MasksInOrder(driven.gen.n)))
        /\ Len(MasksInOrder(driven.gen.n)) = Pow2(driven.gen.n) - 1
        /\ NoDuplicates(MasksInOrder(driven.gen.n))
        /\ driven.gen.n = 4 => MasksInOrder(4) = SubsetFixture15
        /\ (driven.gen.n = 0 /\ calls > 0) => ~returned.some

\* The subsets of 4 positions have been visited and next has returned None.
C34_Witness ==
    /\ driven.kind = "Subset"
    /\ driven.gen.n = 4
    /\ driven.gen.value = 15
    /\ calls = 16
    /\ none_at = 16


\* ---------------------------------------------------------------------------
\* C35.  PermutationGenerator32 over n elements.

\* The indices 0..n-1 in order: the identity permutation.
Indices(n) == [k \in 1..n |-> k - 1]

\* The n! permutations of the indices in lexicographic order.
PermutationsInOrder(n) == Orderings(Indices(n))

\* C35: a PermutationGenerator32 over n elements emits each of the n!
\* permutations of the indices 0..n-1 exactly once, in lexicographic order
\* starting with the identity, each as n distinct indices, and then None; over
\* 0 elements it emits the single empty permutation and then None.
C35_PermutationsInOrder ==
    driven.kind = "Permutations" =>
        /\ DrivenEnumerates(PermutationsInOrder(driven.gen.nb_elems))
        /\ NoDuplicates(PermutationsInOrder(driven.gen.nb_elems))
        /\ PermutationsInOrder(driven.gen.nb_elems)[1] = Indices(driven.gen.nb_elems)
        /\ returned.some =>
               /\ Len(returned.result) = driven.gen.nb_elems
               /\ NoDuplicates(returned.result)

\* The same for one element or more.
C35_PermutationsInOrder_nonempty ==
    (driven.kind = "Permutations" /\ driven.gen.nb_elems > 0) =>
        /\ DrivenEnumerates(PermutationsInOrder(driven.gen.nb_elems))
        /\ returned.some =>
               /\ Len(returned.result) = driven.gen.nb_elems
               /\ NoDuplicates(returned.result)


\* ---------------------------------------------------------------------------
\* C36.  The old evaluator: Flat, Orderless and the loop of eval.

\* The arguments eval_one hands to the rules and the built-in of a compound
\* term: evaluated, sequences spliced, flattened and ordered.
Handed(expr) ==
    ordered(eval_one(head(expr)), head_attributes(eval_one(head(expr))),
            spliced_unless_held(head_attributes(eval_one(head(expr))),
                                args_evaluated(head_attributes(eval_one(head(expr))),
                                               elements(expr))))

\* Integers before symbols, symbols before compounds.
KindRank(expr) == IF expr.t = "Integer" THEN 0 ELSE IF expr.t = "Symbol" THEN 1 ELSE 2

InTermOrder(args) ==
    \A i, j \in DOMAIN args :
        i < j => /\ KindRank(args[i]) <= KindRank(args[j])
                 /\ (args[i].t = "Symbol" /\ args[j].t = "Symbol")
                        => NameRank(args[i].n) <= NameRank(args[j].n)

RECURSIVE Iterated(_, _)
Iterated(expr, n) == IF n = 0 THEN expr ELSE eval_one(Iterated(expr, n - 1))

OldEvaluated(from, to) == (pc = "returned" /\ input = from) => output = to

\* C36: in the old evaluator the arguments handed to the rules and the
\* built-in of a Flat head hold no application of that head, and those of an
\* Orderless head are sorted, integers before symbols, symbols by name,
\* compounds last; eval applies eval_one until the term no longer changes; so
\* Plus[a, Plus[b, c]] gives Plus[a, b, c], Plus[1, Plus[2, 3]] gives 6,
\* Plus[b, a] gives Plus[a, b] and Plus[x, 2, y, 1] gives Plus[3, x, y].
C36_OldFlatOrderless ==
    /\ pc = "eval" =>
           /\ term = Iterated(input, passes)
           /\ \A k \in 0..(passes - 1) : Iterated(input, k + 1) # Iterated(input, k)
           /\ (term.t = "Normal" /\ "Flat" \in head_attributes(eval_one(head(term)))) =>
                  \A k \in DOMAIN Handed(term) :
                      ~(Handed(term)[k].t = "Normal"
                        /\ head(Handed(term)[k]) = eval_one(head(term)))
           /\ (term.t = "Normal" /\ "Orderless" \in head_attributes(eval_one(head(term)))) =>
                  InTermOrder(Handed(term))
    /\ pc = "returned" =>
           /\ output = Iterated(input, passes)
           /\ eval_one(output) = output
    /\ OldEvaluated(App("Plus", <<Sym("a"), App("Plus", <<Sym("b"), Sym("c")>>)>>),
                    App("Plus", <<Sym("a"), Sym("b"), Sym("c")>>))
    /\ OldEvaluated(App("Plus", <<Integer(1), App("Plus", <<Integer(2), Integer(3)>>)>>),
                    Integer(6))
    /\ OldEvaluated(App("Plus", <<Sym("b"), Sym("a")>>), App("Plus", <<Sym("a"), Sym("b")>>))
    /\ OldEvaluated(App("Plus", <<Sym("x"), Integer(2), Sym("y"), Integer(1)>>),
                    App("Plus", <<Integer(3), Sym("x"), Sym("y")>>))

C36_Witness ==
    /\ pc = "returned"
    /\ input = App("Plus", <<Sym("a"), App("Plus", <<Sym("b"), Sym("c")>>)>>)
    /\ output = App("Plus", <<Sym("a"), Sym("b"), Sym("c")>>)
    /\ passes = 1


\* ---------------------------------------------------------------------------
\* C37.  No panic site of the Matcher is reachable.

\* The entries of one kind on a match stack.
EntriesOf(stack, kind) == {k \in DOMAIN stack : stack[k].kind = kind}

\* C37: no panic site of Matcher::next is reachable: in the apply phase the
\* top of the match stack is a MatchGenerator, the entry at the bottom of a
\* match stack is a MatchGenerator so that undo never pops an empty stack,
\* and no step - its calls of undo and backtrack included - aborts, be it on
\* an empty stack or on a ProducedMatchEquations entry counting more
\* equations than the equation stack holds.
C37_NoMatcherPanic ==
    /\ pc # "panic"
    /\ pc = "step2" =>
           /\ Len(matcher.match_stack) > 0
           /\ Last(matcher.match_stack).kind = "MatchGenerator"
           /\ Matcher_step2(matcher).at # "panic"
    /\ pc = "step1" => Matcher_step1(matcher, context).at # "panic"
    /\ Len(matcher.match_stack) > 0 =>
           /\ matcher.match_stack[1].kind = "MatchGenerator"
           /\ undo(matcher).ok

\* The apply phase stands on an exhausted generator above a substitution and
\* produced equations of earlier generators: the step backtracks and undoes.
C37_Witness ==
    /\ pc = "step2"
    /\ EntriesOf(matcher.match_stack, "Substitution") # {}
    /\ EntriesOf(matcher.match_stack, "ProducedMatchEquations") # {}
    /\ ~MatchGenerator_next(Last(matcher.match_stack).gen).some


\* ---------------------------------------------------------------------------
\* C38.  The bindings agree with the audit trail of the match stack.

\* The variables recorded by the Substitution entries of a match stack.
Recorded(stack) == {stack[k].variable : k \in EntriesOf(stack, "Substitution")}

\* The bindings found when a generator still on the match stack was selected
\* - those the entries below it made - are all among the bindings.
EarlierBindingsKept ==
    \A k \in DOMAIN selections :
        \A x \in DOMAIN selections[k].substitutions :
            /\ x \in DOMAIN matcher.substitutions
            /\ matcher.substitutions[x] = selections[k].substitutions[x]

\* C38: in every reachable state of the Matcher the key set of the bindings
\* is the set of variables recorded by the Substitution entries on the match
\* stack, and a binding made by an entry that is still recorded is neither
\* removed nor hidden by what was done or undone above it, patterns with a
\* repeated variable name included.
C38_BindingsAgreeWithTrail ==
    /\ DOMAIN matcher.substitutions = Recorded(matcher.match_stack)
    /\ EarlierBindingsKept

\* The same for patterns whose variables have pairwise different names.
C38_BindingsAgreeWithTrail_distinct ==
    DistinctNames(elements(pattern)) => C38_BindingsAgreeWithTrail


\* ---------------------------------------------------------------------------
\* C39.  Matcher::next terminates, and the first None comes.

\* C39: every call of Matcher::next that has been entered returns, and the
\* caller who goes on calling next gets None after finitely many calls.
C39_NextTerminates ==
    /\ (pc \in {"step1", "step2"}) ~> (pc = "idle")
    /\ <>(none_at # 0)

\* A call has returned the first None after a hundred solutions and more.
C39_Witness ==
    /\ pc = "idle"
    /\ none_at > 100
    /\ calls = none_at


\* ---------------------------------------------------------------------------
\* C40.  The keys of an emitted bindings map.

\* The names occurring in Pattern[name, ...] forms of an expression.
RECURSIVE PatternNames(_)
PatternNames(expr) ==
    IF expr.t # "Normal" THEN {}
    ELSE (IF is_normal_head(expr, "Pattern") /\ len(expr) >= 1 /\ element(expr, 0).t = "Symbol"
          THEN {element(expr, 0).n}
          ELSE {})
         \cup UNION {PatternNames(expr.e[k]) : k \in DOMAIN expr.e}

\* C40: for a ground that contains no pattern forms, every bindings map that
\* Matcher::next emits has as its key set exactly the names occurring in
\* Pattern[name, ...] forms of the pattern.
C40_EmittedKeysAreNames ==
    (calls > 0 /\ returned.some /\ PatternNames(ground) = {}) =>
        DOMAIN returned.bindings = PatternNames(pattern)

\* A solution has been emitted for a pattern of three variables.
C40_Witness ==
    /\ pc = "idle"
    /\ calls > 1
    /\ returned.some
    /\ Cardinality(PatternNames(pattern)) = 3
    /\ DOMAIN returned.bindings = PatternNames(pattern)

====
